---------------------------- MODULE Spec2Model ----------------------------
(***************************************************************************)
(* A model of package strata (strata.go): Build, BuildWithHash and         *)
(* pathToLayerName.                                                        *)
(*                                                                         *)
(* Strings and byte slices are sequences of one-character strings, so that *)
(* every library call the code makes on them (TrimPrefix, path.Dir, Count, *)
(* the byte-wise "<" of sort.Strings, ...) is computed character by        *)
(* character.  A file system handle (fs.FS) is a record: the paths of its  *)
(* regular files, the files whose Open fails, and whether reading a        *)
(* directory fails.                                                        *)
(*                                                                         *)
(* Spec is a call of Build: one step for each call into the file system    *)
(* (the traversal of a source, the read of a file), one for the sort and   *)
(* the append of a source's layers and one for each return.  SpecHash is a *)
(* call of                                                                 *)
(* BuildWithHash, repeated by the caller on the same sources: the steps of *)
(* Build, then one step for each return of BuildWithHash.  The hash is     *)
(* SHA-256 as crypto/sha256 computes it.  SpecEdit and SpecContents are    *)
(* two calls in a row, the contents of style sheets changed in between;    *)
(* SpecPair is two invocations of Build whose steps interleave; SpecFail   *)
(* and SpecPrefix are calls of Build on sources that fail and on sources   *)
(* with several prefixes; SpecSeparators is a call of Build on sources     *)
(* whose prefix holds ", " or whose content holds a line "@layer n {";     *)
(* SpecName is a call of pathToLayerName.                                  *)
(***************************************************************************)
EXTENDS Integers, Sequences, FiniteSets, TLC

(***************************************************************************)
(* Bytes.                                                                  *)
(***************************************************************************)

\* The ASCII characters " " (32) to "_" (95), in code order.
Low ==
  << " ", "!", "\"", "#", "$", "%", "&", "'", "(", ")", "*", "+", ",", "-", ".", "/",
     "0", "1", "2", "3", "4", "5", "6", "7", "8", "9", ":", ";", "<", "=", ">", "?",
     "@", "A", "B", "C", "D", "E", "F", "G", "H", "I", "J", "K", "L", "M", "N", "O",
     "P", "Q", "R", "S", "T", "U", "V", "W", "X", "Y", "Z", "[", "\\", "]", "^", "_" >>

\* The ASCII characters "a" (97) to "~" (126), in code order.
High ==
  << "a", "b", "c", "d", "e", "f", "g", "h", "i", "j", "k", "l", "m", "n", "o",
     "p", "q", "r", "s", "t", "u", "v", "w", "x", "y", "z", "{", "|", "}", "~" >>

Chars ==
  {Low[i] : i \in 1..Len(Low)} \cup {High[i] : i \in 1..Len(High)} \cup {"\n"}

\* The byte value of a character.
Code ==
  [c \in Chars |->
     IF c = "\n" THEN 10
     ELSE IF \E i \in 1..Len(Low) : Low[i] = c
       THEN 31 + (CHOOSE i \in 1..Len(Low) : Low[i] = c)
     ELSE 96 + (CHOOSE i \in 1..Len(High) : High[i] = c)]

(***************************************************************************)
(* Package strings.                                                        *)
(***************************************************************************)

\* Go's "<" on strings: byte-wise lexicographic order.
RECURSIVE StrLess(_, _)
StrLess(s, t) ==
  IF t = << >> THEN FALSE
  ELSE IF s = << >> THEN TRUE
  ELSE IF Head(s) # Head(t) THEN Code[Head(s)] < Code[Head(t)]
  ELSE StrLess(Tail(s), Tail(t))

HasPrefix(s, prefix) ==
  Len(s) >= Len(prefix) /\ SubSeq(s, 1, Len(prefix)) = prefix

HasSuffix(s, suffix) ==
  Len(s) >= Len(suffix) /\ SubSeq(s, Len(s) - Len(suffix) + 1, Len(s)) = suffix

TrimPrefix(s, prefix) ==
  IF HasPrefix(s, prefix) THEN SubSeq(s, Len(prefix) + 1, Len(s)) ELSE s

TrimSuffix(s, suffix) ==
  IF HasSuffix(s, suffix) THEN SubSeq(s, 1, Len(s) - Len(suffix)) ELSE s

\* strings.Count(s, c) for a one-byte separator c.
Count(s, c) == Cardinality({i \in 1..Len(s) : s[i] = c})

\* strings.ReplaceAll(s, old, new) for one-byte old and new.
ReplaceAll(s, old, new) == [i \in 1..Len(s) |-> IF s[i] = old THEN new ELSE s[i]]

\* strings.LastIndex(s, c) + 1 for a one-byte c: 0 when c does not occur.
LastIndex(s, c) ==
  LET hits == {i \in 1..Len(s) : s[i] = c}
  IN  IF hits = {} THEN 0 ELSE CHOOSE i \in hits : \A j \in hits : j <= i

\* strings.Contains(s, sub).
Contains(s, sub) ==
  \E i \in 0..(Len(s) - Len(sub)) : SubSeq(s, i + 1, i + Len(sub)) = sub

(***************************************************************************)
(* Package path.                                                           *)
(***************************************************************************)

\* The "/"-separated elements of s, empty ones included.
RECURSIVE SplitSlash(_)
SplitSlash(s) ==
  LET hits == {i \in 1..Len(s) : s[i] = "/"}
  IN  IF hits = {} THEN << s >>
      ELSE LET i == CHOOSE k \in hits : \A j \in hits : k <= j
           IN  << SubSeq(s, 1, i - 1) >> \o SplitSlash(SubSeq(s, i + 1, Len(s)))

\* s[1] + "/" + s[2] + ... for a sequence of strings.
RECURSIVE JoinSlash(_)
JoinSlash(elems) ==
  IF elems = << >> THEN << >>
  ELSE IF Len(elems) = 1 THEN elems[1]
  ELSE elems[1] \o << "/" >> \o JoinSlash(Tail(elems))

\* path.Clean's pass over the elements: "" and "." are dropped, ".." removes
\* the element before it, or is kept (unrooted) or dropped (rooted) when there
\* is none to remove.
RECURSIVE CleanElems(_, _, _)
CleanElems(elems, acc, rooted) ==
  IF elems = << >> THEN acc
  ELSE LET e == Head(elems)
           dotdot == << ".", "." >>
       IN  IF e = << >> \/ e = << "." >> THEN CleanElems(Tail(elems), acc, rooted)
           ELSE IF e = dotdot
             THEN IF acc # << >> /\ acc[Len(acc)] # dotdot
                    THEN CleanElems(Tail(elems), SubSeq(acc, 1, Len(acc) - 1), rooted)
                  ELSE IF rooted THEN CleanElems(Tail(elems), acc, rooted)
                  ELSE CleanElems(Tail(elems), Append(acc, e), rooted)
           ELSE CleanElems(Tail(elems), Append(acc, e), rooted)

\* path.Clean.
pathClean(p) ==
  IF p = << >> THEN << "." >>
  ELSE LET rooted == p[1] = "/"
           body == JoinSlash(CleanElems(SplitSlash(p), << >>, rooted))
       IN  IF rooted THEN << "/" >> \o body
           ELSE IF body = << >> THEN << "." >>
           ELSE body

\* path.Dir: everything up to the final slash, cleaned.
pathDir(p) == pathClean(SubSeq(p, 1, LastIndex(p, "/")))

\* path.Base: the last element, trailing slashes removed first.
RECURSIVE pathBase(_)
pathBase(p) ==
  IF p = << >> THEN << "." >>
  ELSE IF p[Len(p)] = "/"
    THEN IF Len(p) = 1 THEN << "/" >> ELSE pathBase(SubSeq(p, 1, Len(p) - 1))
  ELSE SubSeq(p, LastIndex(p, "/") + 1, Len(p))

\* path.Ext: the suffix from the final dot of the final element, or "".
pathExt(p) ==
  LET slash == LastIndex(p, "/")
      dot == LastIndex(p, ".")
  IN  IF dot > slash THEN SubSeq(p, dot, Len(p)) ELSE << >>

(***************************************************************************)
(* strata.go                                                               *)
(***************************************************************************)

cssExtension == << ".", "c", "s", "s" >>

\* A variant that takes dir as it is given, with its trailing slash.
pathToLayerNameRaw(filePath, dir) ==
  LET relPath == TrimPrefix(filePath, dir \o << "/" >>)
      dirPart == pathDir(relPath)
  IN  IF dirPart = << "." >>
        THEN TrimSuffix(pathBase(relPath), pathExt(relPath))
        ELSE ReplaceAll(dirPart, "/", ".")

\* pathToLayerName(filePath, dir).
pathToLayerName(filePath, dir) ==
  LET d == TrimSuffix(dir, << "/" >>)
      relPath == TrimPrefix(filePath, d \o << "/" >>)
      dirPart == pathDir(relPath)
  IN  IF dirPart = << "." >>
        THEN TrimSuffix(pathBase(relPath), pathExt(relPath))
        ELSE ReplaceAll(dirPart, "/", ".")

(***************************************************************************)
(* Errors and package io/fs.                                               *)
(***************************************************************************)

\* An error value: nil, or an error with its message.
Nil == [nil |-> TRUE, msg |-> << >>]

Err(m) == [nil |-> FALSE, msg |-> m]

\* fmt.Errorf(prefix + "%w", err): the message of err after the prefix.
Errorf(prefix, err) == Err(prefix \o err.msg)

\* All orders of the elements of a finite set.
RECURSIVE Perms(_)
Perms(S) ==
  IF S = {} THEN {<< >>}
  ELSE UNION {{<< x >> \o p : p \in Perms(S \ {x})} : x \in S}

\* The values of a map.
Values(m) == {m[k] : k \in DOMAIN m}

\* The directories above path p: "a" and "a/e" for "a/e/g.css".
Ancestors(p) == {SubSeq(p, 1, i - 1) : i \in {k \in 1..Len(p) : p[k] = "/"}}

\* Whether path p is root or lies below it; "." is the root of the handle.
Under(p, root) ==
  root = << "." >> \/ p = root \/ HasPrefix(p, root \o << "/" >>)

\* The directory entries fs.WalkDir(fsys, root, fn) reports: root and every
\* directory below it that holds a file.
DirEntries(fsys, root) ==
  {[path |-> d, isDir |-> TRUE] :
     d \in {root} \cup {a \in UNION {Ancestors(p) : p \in DOMAIN fsys.files} :
                          Under(a, root)}}

\* The regular files fs.WalkDir(fsys, root, fn) reports.
FileEntries(fsys, root) ==
  {[path |-> p, isDir |-> FALSE] : p \in {q \in DOMAIN fsys.files : Under(q, root)}}

\* The orders in which a traversal may report the entries.  The callback
\* does nothing on a directory entry, so the directories are reported first
\* and only the order of the regular files varies.
Enumerations(fsys, root) ==
  LET dirs == CHOOSE s \in Perms(DirEntries(fsys, root)) : TRUE
  IN  {dirs \o files : files \in Perms(FileEntries(fsys, root))}

\* fs.ReadFile(fsys, name): the file's bytes, or the error of its Open; the
\* read of a directory fails.
ReadFile(fsys, name) ==
  IF name \in fsys.unreadable
    THEN [content |-> << >>, err |-> fsys.openErr]
  ELSE IF name \notin DOMAIN fsys.files
    THEN [content |-> << >>,
          err |-> Errorf(<< "r", "e", "a", "d", " " >> \o name \o << ":", " " >>,
                         fsys.dirErr)]
  ELSE [content |-> fsys.files[name], err |-> Nil]

(***************************************************************************)
(* Build: one iteration of the loop over the sources.                      *)
(***************************************************************************)

\* A variant of the callback without the test of the extension.
walkFnAnyFile(filePaths, filePath, isDir, err) ==
  IF ~err.nil THEN [filePaths |-> filePaths, err |-> err]
  ELSE IF isDir THEN [filePaths |-> filePaths, err |-> Nil]
  ELSE [filePaths |-> Append(filePaths, filePath), err |-> Nil]

\* A variant of the callback without the test for a directory.
walkFnAnyEntry(filePaths, filePath, isDir, err) ==
  IF ~err.nil THEN [filePaths |-> filePaths, err |-> err]
  ELSE IF ~HasSuffix(filePath, cssExtension) THEN [filePaths |-> filePaths, err |-> Nil]
  ELSE [filePaths |-> Append(filePaths, filePath), err |-> Nil]

\* The callback Build passes to fs.WalkDir (strata.go:92-104).
walkFn(filePaths, filePath, isDir, err) ==
  IF ~err.nil THEN [filePaths |-> filePaths, err |-> err]
  ELSE IF isDir THEN [filePaths |-> filePaths, err |-> Nil]
  ELSE IF ~HasSuffix(filePath, cssExtension) THEN [filePaths |-> filePaths, err |-> Nil]
  ELSE [filePaths |-> Append(filePaths, filePath), err |-> Nil]

\* fs.WalkDir's calls of the callback on the entries in the order given; the
\* first error the callback returns ends the walk.
RECURSIVE walkEntries(_, _)
walkEntries(order, filePaths) ==
  IF order = << >> THEN [filePaths |-> filePaths, err |-> Nil]
  ELSE LET r == walkFn(filePaths, Head(order).path, Head(order).isDir, Nil)
       IN  IF ~r.err.nil THEN r ELSE walkEntries(Tail(order), r.filePaths)

\* fs.WalkDir(fsys, root, fn): a handle that cannot be read reports its error
\* to the callback for the root; otherwise every entry is reported.
WalkDir(fsys, root, order) ==
  IF ~fsys.walkErr.nil THEN walkFn(<< >>, root, FALSE, fsys.walkErr)
  ELSE walkEntries(order, << >>)

\* The root Build walks (strata.go:92).
walkRoot(src) == << "." >>

\* A variant of Build without the sort of the file paths.
unsorted(a) == a

\* sort.Strings: insertion into an ascending sequence.
RECURSIVE insertString(_, _)
insertString(sorted, s) ==
  IF sorted = << >> THEN << s >>
  ELSE IF StrLess(s, Head(sorted)) THEN << s >> \o sorted
  ELSE << Head(sorted) >> \o insertString(Tail(sorted), s)

RECURSIVE sortStrings(_)
sortStrings(a) ==
  IF a = << >> THEN << >> ELSE insertString(sortStrings(Tail(a)), Head(a))

\* A variant that prepends the prefix and the dot also for an empty prefix.
alwaysPrefixed(src, filePath) ==
  src.Prefix \o << "." >> \o pathToLayerName(filePath, src.Dir)

\* A variant that puts the prefix behind the name.
prefixAppended(src, filePath) ==
  LET layerName == pathToLayerName(filePath, src.Dir)
  IN  IF src.Prefix # << >> THEN layerName \o << "." >> \o src.Prefix
      ELSE layerName

\* The name of the layer a file goes to (strata.go:124-129).
layerNameOf(src, filePath) ==
  LET layerName == pathToLayerName(filePath, src.Dir)
  IN  IF src.Prefix # << >> THEN src.Prefix \o << "." >> \o layerName
      ELSE layerName

\* A variant of the map update that creates no layer for a file without
\* content.
addNonEmpty(layers, layerName, content) ==
  IF content = << >> THEN layers
  ELSE LET l == IF layerName \in DOMAIN layers THEN layers[layerName]
                ELSE [name |-> layerName,
                      depth |-> Count(layerName, "."),
                      content |-> << >>]
           written == [l EXCEPT !.content = @ \o content \o << "\n" >>]
       IN  [n \in DOMAIN layers \cup {layerName} |->
              IF n = layerName THEN written ELSE layers[n]]

\* A variant of the map update that starts the layer anew for every file.
addOverwriting(layers, layerName, content) ==
  [n \in DOMAIN layers \cup {layerName} |->
     IF n = layerName
       THEN [name |-> layerName,
             depth |-> Count(layerName, "."),
             content |-> content \o << "\n" >>]
       ELSE layers[n]]

\* A variant of the map update whose new layer starts with the content of
\* its first file, which is then written to it like that of every file.
addInitialised(layers, layerName, content) ==
  LET l == IF layerName \in DOMAIN layers THEN layers[layerName]
           ELSE [name |-> layerName,
                 depth |-> Count(layerName, "."),
                 content |-> content]
      written == [l EXCEPT !.content = @ \o content \o << "\n" >>]
  IN  [n \in DOMAIN layers \cup {layerName} |->
         IF n = layerName THEN written ELSE layers[n]]

\* A variant of the map update that writes to a layer only when it creates
\* it.
addFirstOnly(layers, layerName, content) ==
  IF layerName \in DOMAIN layers THEN layers
  ELSE [n \in DOMAIN layers \cup {layerName} |->
          IF n = layerName
            THEN [name |-> layerName,
                  depth |-> Count(layerName, "."),
                  content |-> content \o << "\n" >>]
            ELSE layers[n]]

\* The layers map after one more file (strata.go:131-142).
addToLayer(layers, layerName, content) ==
  LET l == IF layerName \in DOMAIN layers THEN layers[layerName]
           ELSE [name |-> layerName,
                 depth |-> Count(layerName, "."),
                 content |-> << >>]
      written == [l EXCEPT !.content = @ \o content \o << "\n" >>]
  IN  [n \in DOMAIN layers \cup {layerName} |->
         IF n = layerName THEN written ELSE layers[n]]

\* A variant that returns the error of the walk as it is.
unwrapped(err) == err

\* The error Build returns when the walk fails (strata.go:106).
walkError(err) ==
  Errorf(<< "w", "a", "l", "k", " ", "f", "i", "l", "e", "s", "y", "s", "t", "e", "m",
            ":", " " >>, err)

\* A variant that leaves the path out of the message.
readErrorNoPath(filePath, err) ==
  Errorf(<< "r", "e", "a", "d", ":", " " >>, err)

\* The error Build returns when a read fails (strata.go:121).
readError(filePath, err) ==
  Errorf(<< "r", "e", "a", "d", " " >> \o filePath \o << ":", " " >>, err)

\* The loop, were it to go on to the next file after a read has failed and
\* to return the error of the first read that has failed.
RECURSIVE readFilesKeepGoing(_, _, _, _)
readFilesKeepGoing(src, filePaths, layers, done) ==
  IF filePaths = << >> THEN [layers |-> layers, reads |-> done, err |-> Nil]
  ELSE LET filePath == Head(filePaths)
           r == ReadFile(src.FS, filePath)
           rest == readFilesKeepGoing(
                     src, Tail(filePaths),
                     IF r.err.nil
                       THEN addToLayer(layers, layerNameOf(src, filePath), r.content)
                       ELSE layers,
                     Append(done, filePath))
       IN  IF r.err.nil THEN rest ELSE [rest EXCEPT !.err = readError(filePath, r.err)]

\* The loop, were it to go on likewise and to return the error of the last
\* read that has failed.
RECURSIVE readFilesLastError(_, _, _, _)
readFilesLastError(src, filePaths, layers, done) ==
  IF filePaths = << >> THEN [layers |-> layers, reads |-> done, err |-> Nil]
  ELSE LET filePath == Head(filePaths)
           r == ReadFile(src.FS, filePath)
           rest == readFilesLastError(
                     src, Tail(filePaths),
                     IF r.err.nil
                       THEN addToLayer(layers, layerNameOf(src, filePath), r.content)
                       ELSE layers,
                     Append(done, filePath))
       IN  IF r.err.nil \/ ~rest.err.nil THEN rest
           ELSE [rest EXCEPT !.err = readError(filePath, r.err)]

\* A variant of the loop's body whose map has a layer for each file path.
readNextByPath(src, filePaths, layers) ==
  LET filePath == Head(filePaths)
      r == ReadFile(src.FS, filePath)
  IN  IF ~r.err.nil
        THEN [layers |-> layers, rest |-> Tail(filePaths), read |-> << filePath >>,
              err |-> readError(filePath, r.err)]
        ELSE [layers |-> [p \in {filePath} |->
                            [name |-> layerNameOf(src, filePath),
                             depth |-> Count(layerNameOf(src, filePath), "."),
                             content |-> r.content \o << "\n" >>]]
                           @@ layers,
              rest |-> Tail(filePaths), read |-> << filePath >>, err |-> Nil]

\* A variant of the loop's body that, when the read fails, goes on to read
\* the files that follow and returns the error of the first read that has
\* failed.
readNextKeepGoing(src, filePaths, layers) ==
  LET filePath == Head(filePaths)
      r == ReadFile(src.FS, filePath)
  IN  IF ~r.err.nil
        THEN LET all == readFilesKeepGoing(src, filePaths, layers, << >>)
             IN  [layers |-> all.layers, rest |-> << >>, read |-> all.reads,
                  err |-> all.err]
        ELSE [layers |-> addToLayer(layers, layerNameOf(src, filePath), r.content),
              rest |-> Tail(filePaths), read |-> << filePath >>, err |-> Nil]

\* A variant of the loop's body that goes on likewise and returns the error
\* of the last read that has failed.
readNextLastError(src, filePaths, layers) ==
  LET filePath == Head(filePaths)
      r == ReadFile(src.FS, filePath)
  IN  IF ~r.err.nil
        THEN LET all == readFilesLastError(src, filePaths, layers, << >>)
             IN  [layers |-> all.layers, rest |-> << >>, read |-> all.reads,
                  err |-> all.err]
        ELSE [layers |-> addToLayer(layers, layerNameOf(src, filePath), r.content),
              rest |-> Tail(filePaths), read |-> << filePath >>, err |-> Nil]

\* The body of the loop over the sorted file paths, for the first of the
\* paths that are left (strata.go:118-143): the read of the file, then the
\* error of the read, or the layers map with the content of the file
\* written to its layer; the paths left after it and the paths read.
readNext(src, filePaths, layers) ==
  LET filePath == Head(filePaths)
      r == ReadFile(src.FS, filePath)
  IN  IF ~r.err.nil
        THEN [layers |-> layers, rest |-> Tail(filePaths), read |-> << filePath >>,
              err |-> readError(filePath, r.err)]
        ELSE [layers |-> addToLayer(layers, layerNameOf(src, filePath), r.content),
              rest |-> Tail(filePaths), read |-> << filePath >>, err |-> Nil]

\* The loop over the sorted file paths as a whole (strata.go:118-143): the
\* layers map, the reads made, and the error of the read that ends it.
RECURSIVE readFiles(_, _, _, _)
readFiles(src, filePaths, layers, done) ==
  IF filePaths = << >> THEN [layers |-> layers, reads |-> done, err |-> Nil]
  ELSE LET n == readNext(src, filePaths, layers)
       IN  IF ~n.err.nil
             THEN [layers |-> layers, reads |-> done \o n.read, err |-> n.err]
             ELSE readFiles(src, n.rest, n.layers, done \o n.read)

\* Variants of the less function: by name alone, and by depth alone.
nameLess(a, b) == StrLess(a.name, b.name)

depthLess(a, b) == a.depth < b.depth

\* A variant of the less function that compares the contents.
contentLess(a, b) == StrLess(a.content, b.content)

\* The less function Build passes to sort.Slice (strata.go:150-155).
layerLess(a, b) ==
  IF a.depth # b.depth THEN a.depth < b.depth ELSE StrLess(a.name, b.name)

\* sort.Slice on the layers of the map, collected in any order: the sort is
\* not stable, so every order that less admits is a possible result.
sortSlice(layerSet) ==
  {s \in Perms(layerSet) :
     \A i, j \in 1..Len(s) : i < j => ~layerLess(s[j], s[i])}

\* A variant that keeps allLayers sorted as a whole: every layer of the
\* source is inserted where less puts it.
RECURSIVE insertLayer(_, _)
insertLayer(sorted, l) ==
  IF sorted = << >> THEN << l >>
  ELSE IF layerLess(l, Head(sorted)) THEN << l >> \o sorted
  ELSE << Head(sorted) >> \o insertLayer(Tail(sorted), l)

RECURSIVE mergeLayers(_, _)
mergeLayers(all, sortedLayers) ==
  IF sortedLayers = << >> THEN all
  ELSE mergeLayers(insertLayer(all, Head(sortedLayers)), Tail(sortedLayers))

\* A variant that keeps one layer for a name: the content of a layer whose
\* name is in allLayers already is written to the layer that is there.
RECURSIVE mergeSameNames(_, _)
mergeSameNames(all, sortedLayers) ==
  IF sortedLayers = << >> THEN all
  ELSE LET l == Head(sortedLayers)
       IN  IF \E i \in 1..Len(all) : all[i].name = l.name
             THEN mergeSameNames(
                    [i \in 1..Len(all) |->
                       IF all[i].name = l.name
                         THEN [all[i] EXCEPT !.content = @ \o l.content]
                         ELSE all[i]],
                    Tail(sortedLayers))
             ELSE mergeSameNames(Append(all, l), Tail(sortedLayers))

\* A variant that puts the layers of a source in front of allLayers.
prependLayers(all, sortedLayers) == sortedLayers \o all

\* allLayers after the layers of one more source (strata.go:158).
appendLayers(all, sortedLayers) == all \o sortedLayers

\* One iteration of the loop over sources (strata.go:87-159) for a traversal
\* that reports the entries in the given order.
iteration(src, order) ==
  LET w == WalkDir(src.FS, walkRoot(src), order)
  IN  IF ~w.err.nil
        THEN [kind |-> "walkError", reads |-> << >>, layers |-> << >>,
              err |-> walkError(w.err)]
      ELSE IF Len(w.filePaths) = 0
        THEN [kind |-> "empty", reads |-> << >>, layers |-> << >>, err |-> Nil]
      ELSE LET r == readFiles(src, sortStrings(w.filePaths), << >>, << >>)
           IN  IF ~r.err.nil
                 THEN [kind |-> "readError", reads |-> r.reads, layers |-> << >>,
                       err |-> r.err]
                 ELSE [kind |-> "layers", reads |-> r.reads, layers |-> r.layers,
                       err |-> Nil]

(***************************************************************************)
(* Build: the output.                                                      *)
(***************************************************************************)

layerKeyword == << "@", "l", "a", "y", "e", "r", " " >>

\* A variant of the header that declares a name once: a name that stands
\* earlier in the list is left out.
RECURSIVE headerOnce(_, _)
headerOnce(list, i) ==
  IF i > Len(list) THEN << >>
  ELSE IF \E j \in 1..(i - 1) : list[j].name = list[i].name
    THEN headerOnce(list, i + 1)
  ELSE (IF i > 1 THEN << ",", " " >> ELSE << >>) \o list[i].name
       \o headerOnce(list, i + 1)

\* The header's names (strata.go:171-176).
RECURSIVE headerNames(_, _)
headerNames(list, i) ==
  IF i > Len(list) THEN << >>
  ELSE (IF i > 1 THEN << ",", " " >> ELSE << >>) \o list[i].name
       \o headerNames(list, i + 1)

\* A variant of the blocks that opens a block without a newline.
RECURSIVE blocksOneLine(_)
blocksOneLine(list) ==
  IF list = << >> THEN << >>
  ELSE layerKeyword \o Head(list).name \o << " ", "{", " " >>
       \o Head(list).content \o << "}", "\n" >>
       \o blocksOneLine(Tail(list))

\* The blocks (strata.go:180-186).
RECURSIVE layerBlocks(_)
layerBlocks(list) ==
  IF list = << >> THEN << >>
  ELSE layerKeyword \o Head(list).name \o << " ", "{", "\n" >>
       \o Head(list).content \o << "}", "\n" >>
       \o layerBlocks(Tail(list))

\* Build's output for a non-empty list of layers (strata.go:166-188).
render(list) ==
  layerKeyword \o headerNames(list, 1) \o << ";", "\n" >> \o layerBlocks(list)

(***************************************************************************)
(* crypto/sha256 and encoding/hex.                                         *)
(*                                                                         *)
(* A 32-bit word is a pair << high, low >> of 16-bit halves, so that no    *)
(* intermediate value leaves the range of TLC's integers.                  *)
(***************************************************************************)

\* The exclusive or of two naturals, bit by bit.
RECURSIVE BitXor(_, _)
BitXor(a, b) ==
  IF a = 0 THEN b
  ELSE IF b = 0 THEN a
  ELSE (((a % 2) + (b % 2)) % 2) + 2 * BitXor(a \div 2, b \div 2)

\* BitXor on bytes, tabulated.
XorByte == [a \in 0..255 |-> [b \in 0..255 |-> BitXor(a, b)] @@ << >>] @@ << >>

Xor16(a, b) ==
  (256 * XorByte[a \div 256][b \div 256]) + XorByte[a % 256][b % 256]

\* a AND b = (a + b - (a XOR b)) / 2.
And16(a, b) == (a + b - Xor16(a, b)) \div 2

WXor(a, b) == << Xor16(a[1], b[1]), Xor16(a[2], b[2]) >>

WAnd(a, b) == << And16(a[1], b[1]), And16(a[2], b[2]) >>

WNot(a) == << 65535 - a[1], 65535 - a[2] >>

\* Addition modulo 2^32.
WAdd(a, b) ==
  LET lo == a[2] + b[2]
  IN  << (a[1] + b[1] + (lo \div 65536)) % 65536, lo % 65536 >>

Pow2 == [n \in 0..16 |-> 2 ^ n] @@ << >>

\* Rotation to the right by n bits, 0 < n < 32.
Rotr(a, n) ==
  LET hi == IF n >= 16 THEN a[2] ELSE a[1]
      lo == IF n >= 16 THEN a[1] ELSE a[2]
      k == n % 16
  IN  << (hi \div Pow2[k]) + ((lo % Pow2[k]) * Pow2[16 - k]),
         (lo \div Pow2[k]) + ((hi % Pow2[k]) * Pow2[16 - k]) >>

\* Shift to the right by n bits, 0 < n < 16.
Shr(a, n) ==
  << a[1] \div Pow2[n], (a[2] \div Pow2[n]) + ((a[1] % Pow2[n]) * Pow2[16 - n]) >>

sha256K ==
  <<
     << 17034, 12184 >>, << 28983, 17553 >>, << 46528, 64463 >>, << 59829, 56229 >>,
     << 14678, 49755 >>, << 23025, 4593 >>, << 37439, 33444 >>, << 43804, 24277 >>,
     << 55303, 43672 >>, << 4739, 23297 >>, << 9265, 34238 >>, << 21772, 32195 >>,
     << 29374, 23924 >>, << 32990, 45566 >>, << 39900, 1703 >>, << 49563, 61812 >>,
     << 58523, 27073 >>, << 61374, 18310 >>, << 4033, 40390 >>, << 9228, 41420 >>,
     << 11753, 11375 >>, << 19060, 33962 >>, << 23728, 43484 >>, << 30457, 35034 >>,
     << 38974, 20818 >>, << 43057, 50797 >>, << 45059, 10184 >>, << 48985, 32711 >>,
     << 50912, 3059 >>, << 54695, 37191 >>, << 1738, 25425 >>, << 5161, 10599 >>,
     << 10167, 2693 >>, << 11803, 8504 >>, << 19756, 28156 >>, << 21304, 3347 >>,
     << 25866, 29524 >>, << 30314, 2747 >>, << 33218, 51502 >>, << 37490, 11397 >>,
     << 41663, 59553 >>, << 43034, 26187 >>, << 49739, 35696 >>, << 51052, 20899 >>,
     << 53650, 59417 >>, << 54937, 1572 >>, << 62478, 13701 >>, << 4202, 41072 >>,
     << 6564, 49430 >>, << 7735, 27656 >>, << 10056, 30540 >>, << 13488, 48309 >>,
     << 14620, 3251 >>, << 20184, 43594 >>, << 23452, 51791 >>, << 26670, 28659 >>,
     << 29839, 33518 >>, << 30885, 25455 >>, << 33992, 30740 >>, << 36039, 520 >>,
     << 37054, 65530 >>, << 42064, 27883 >>, << 48889, 41975 >>, << 50801, 30962 >>
  >>

sha256Init ==
  <<
     << 27145, 58983 >>, << 47975, 44677 >>, << 15470, 62322 >>, << 42319, 62778 >>,
     << 20750, 21119 >>, << 39685, 26764 >>, << 8067, 55723 >>, << 23520, 52505 >>
  >>

\* The message with its padding: 0x80, zeros, and the length in bits as a
\* 64-bit big-endian number (the messages here are shorter than 2^16 bytes).
RECURSIVE zeros(_)
zeros(n) == IF n = 0 THEN << >> ELSE << 0 >> \o zeros(n - 1)

sha256Pad(msg) ==
  LET n == Len(msg)
      fill == (55 - n) % 64
      bits == 8 * n
  IN  msg \o << 128 >> \o zeros(fill) \o << 0, 0, 0, 0, 0 >>
          \o << bits \div 65536, (bits \div 256) % 256, bits % 256 >>

\* The 16 big-endian words of the block that starts after byte `at`.
blockWords(bytes, at) ==
  [t \in 1..16 |->
     << (256 * bytes[at + (4 * t) - 3]) + bytes[at + (4 * t) - 2],
        (256 * bytes[at + (4 * t) - 1]) + bytes[at + (4 * t)] >>]

smallSigma0(x) == WXor(WXor(Rotr(x, 7), Rotr(x, 18)), Shr(x, 3))
smallSigma1(x) == WXor(WXor(Rotr(x, 17), Rotr(x, 19)), Shr(x, 10))
bigSigma0(x) == WXor(WXor(Rotr(x, 2), Rotr(x, 13)), Rotr(x, 22))
bigSigma1(x) == WXor(WXor(Rotr(x, 6), Rotr(x, 11)), Rotr(x, 25))
Ch(x, y, z) == WXor(WAnd(x, y), WAnd(WNot(x), z))
Maj(x, y, z) == WXor(WXor(WAnd(x, y), WAnd(x, z)), WAnd(y, z))

\* The message schedule: 16 words extended to 64.
RECURSIVE schedule(_)
schedule(w) ==
  IF Len(w) = 64 THEN w
  ELSE LET t == Len(w) + 1
       IN  schedule(Append(w, WAdd(WAdd(smallSigma1(w[t - 2]), w[t - 7]),
                                  WAdd(smallSigma0(w[t - 15]), w[t - 16]))))

\* The 64 rounds on the working variables v = << a, b, c, d, e, f, g, h >>.
\* (Len(v) makes TLC compute the variables of a round before the next one.)
RECURSIVE rounds(_, _, _)
rounds(v, w, t) ==
  IF t > 64 \/ Len(v) # 8 THEN v
  ELSE LET t1 == WAdd(WAdd(WAdd(v[8], bigSigma1(v[5])), Ch(v[5], v[6], v[7])),
                      WAdd(sha256K[t], w[t]))
           t2 == WAdd(bigSigma0(v[1]), Maj(v[1], v[2], v[3]))
       IN  rounds(<< WAdd(t1, t2), v[1], v[2], v[3], WAdd(v[4], t1), v[5], v[6], v[7] >>,
                  w, t + 1)

\* The digest state after the blocks from byte `at` on.
RECURSIVE sha256Blocks(_, _, _)
sha256Blocks(h, bytes, at) ==
  IF at >= Len(bytes) THEN h
  ELSE LET v == rounds(h, schedule(blockWords(bytes, at)), 1)
       IN  sha256Blocks([i \in 1..8 |-> WAdd(h[i], v[i])], bytes, at + 64)

\* sha256.Sum256: the 32 bytes of the digest.
Sum256(data) ==
  LET h == sha256Blocks(sha256Init, sha256Pad(data), 0)
  IN  [i \in 1..32 |->
         LET word == h[((i - 1) \div 4) + 1]
             half == word[(((i - 1) % 4) \div 2) + 1]
         IN  IF i % 2 = 1 THEN half \div 256 ELSE half % 256]

hextable ==
  << "0", "1", "2", "3", "4", "5", "6", "7", "8", "9", "a", "b", "c", "d", "e", "f" >>

\* hex.EncodeToString.
RECURSIVE EncodeToString(_)
EncodeToString(src) ==
  IF src = << >> THEN << >>
  ELSE << hextable[(Head(src) \div 16) + 1], hextable[(Head(src) % 16) + 1] >>
       \o EncodeToString(Tail(src))

\* []byte(s): the bytes of a string.
ByteValues(s) == [i \in 1..Len(s) |-> Code[s[i]]]

(***************************************************************************)
(* BuildWithHash.                                                          *)
(***************************************************************************)

\* A variant that encodes the whole digest.
hashOfWhole(css) == EncodeToString(Sum256(ByteValues(css)))

\* A variant that hashes the header of the output alone.
hashOfHeader(css) ==
  LET n == CHOOSE i \in 1..Len(css) : css[i] = "\n" /\ \A j \in 1..(i - 1) : css[j] # "\n"
  IN  EncodeToString(SubSeq(Sum256(ByteValues(SubSeq(css, 1, n))), 1, 8))

\* The hash of a non-empty output (strata.go:217-218).
hashOf(css) == EncodeToString(SubSeq(Sum256(ByteValues(css)), 1, 8))

(***************************************************************************)
(* The inputs: file system handles and sources.                            *)
(*                                                                         *)
(* In the state a source is written with its strings as they appear in a   *)
(* Go program ("b/f.css"); Bytes gives the characters of each, and Expand  *)
(* the source the operators above work on.                                 *)
(***************************************************************************)

\* The longest list of sources Build is called with.
MaxSources == 2

Bytes ==
  ("" :> << >>)
    @@ ("a" :> << "a" >>)
    @@ ("p" :> << "p" >>)
    @@ ("p.q" :> << "p", ".", "q" >>)
    @@ ("x" :> << "x" >>)
    @@ ("z" :> << "z" >>)
    @@ ("#" :> << "#" >>)
    @@ ("b.css" :> << "b", ".", "c", "s", "s" >>)
    @@ ("b/f.css" :> << "b", "/", "f", ".", "c", "s", "s" >>)
    @@ ("a/e/g.css" :> << "a", "/", "e", "/", "g", ".", "c", "s", "s" >>)
    @@ ("m.md" :> << "m", ".", "m", "d" >>)
    @@ ("y" :> << "y" >>)
    @@ ("a, b" :> << "a", ",", " ", "b" >>)
    @@ ("k.css" :> << "k", ".", "c", "s", "s" >>)
    @@ ("@layer n {" :> << "@", "l", "a", "y", "e", "r", " ", "n", " ", "{" >>)
    @@ ("d.css/h.css" :> << "d", ".", "c", "s", "s", "/", "h", ".", "c", "s", "s" >>)
    @@ ("e.css" :> << "e", ".", "c", "s", "s" >>)
    @@ (".css" :> << ".", "c", "s", "s" >>)
    @@ ("c/i.css" :> << "c", "/", "i", ".", "c", "s", "s" >>)
    @@ ("c/j.css" :> << "c", "/", "j", ".", "c", "s", "s" >>)
    @@ ("x\nx" :> << "x", "\n", "x" >>)
    @@ ("x\n" :> << "x", "\n" >>)
    @@ ("invalid argument" :>
          << "i", "n", "v", "a", "l", "i", "d", " ", "a", "r", "g", "u", "m",
             "e", "n", "t" >>)
    @@ ("simulated fs error" :>
          << "s", "i", "m", "u", "l", "a", "t", "e", "d", " ", "f", "s", " ",
             "e", "r", "r", "o", "r" >>)

\* The files a handle may hold, with their content: b.css and b/f.css share
\* the layer "b", b/f.css is a file of zero bytes, a/e/g.css lies one level
\* deeper, m.md is no style sheet and d.css/h.css lies in a directory whose
\* name ends like a style sheet's, beside e.css; c/i.css and c/j.css share
\* the layer "c", and the content of c/i.css has a newline inside; the
\* name of .css is its extension; the content of k.css is a line that opens
\* a block.
FileData ==
  ("b.css" :> "x") @@ ("b/f.css" :> "") @@ ("a/e/g.css" :> "z") @@ ("m.md" :> "#")
    @@ ("d.css/h.css" :> "y") @@ ("e.css" :> "x") @@ ("c/i.css" :> "x\nx")
    @@ ("c/j.css" :> "") @@ (".css" :> "z") @@ ("k.css" :> "@layer n {")

\* The content of a style sheet after the caller has changed it.
EditedData ==
  ("b.css" :> "z") @@ ("b/f.css" :> "x") @@ ("a/e/g.css" :> "x")
    @@ ("d.css/h.css" :> "x") @@ ("c/i.css" :> "x") @@ ("c/j.css" :> "x\n")

StyleSheets == {"b.css", "b/f.css", "a/e/g.css"}

PathUniverse == StyleSheets \cup {"m.md"}

\* A handle like fstest.MapFS: its files, whether walking it fails (the
\* tests' brokenFS, strata_test.go:238-243) and the files whose Open fails,
\* with the error of brokenFS; and the files that hold their changed
\* content.
MapFS(paths) ==
  [files |-> paths, broken |-> FALSE, unreadable |-> {}, edited |-> {}]

\* Handles: every set of the style sheets, the handle that holds only m.md
\* and the full tree; the handle that cannot be walked; the full tree with
\* one file that cannot be opened.
Handles ==
  {MapFS(paths) : paths \in SUBSET StyleSheets}
    \cup {MapFS({"m.md"}), MapFS(PathUniverse)}

FaultyHandles ==
  {[MapFS({"b.css"}) EXCEPT !.broken = TRUE]}
    \cup {[MapFS(PathUniverse) EXCEPT !.unreadable = {p}] : p \in PathUniverse}

Dirs == {"", "a"}

Prefixes == {"", "p"}

Sources ==
  [FS : Handles, Dir : Dirs, Prefix : Prefixes]
    \cup [FS : FaultyHandles, Dir : {""}, Prefix : {""}]

SourceLists == UNION {[1..n -> Sources] : n \in 0..MaxSources}

\* The sources BuildWithHash is called with: the full tree; two layers of
\* one depth under a prefix; the file of zero bytes alone; no style sheet;
\* no file; the handle that cannot be walked; a style sheet that cannot be
\* opened; a style sheet in a directory named like a style sheet, beside a
\* style sheet at the root and a file that is none.
HashSources ==
  {[FS |-> MapFS(PathUniverse), Dir |-> "", Prefix |-> ""],
   [FS |-> MapFS({"b.css", "a/e/g.css"}), Dir |-> "a", Prefix |-> "p"],
   [FS |-> MapFS({"b/f.css"}), Dir |-> "", Prefix |-> ""],
   [FS |-> MapFS({"m.md"}), Dir |-> "", Prefix |-> ""],
   [FS |-> MapFS({}), Dir |-> "", Prefix |-> ""],
   [FS |-> [MapFS({"b.css"}) EXCEPT !.broken = TRUE], Dir |-> "", Prefix |-> ""],
   [FS |-> [MapFS(PathUniverse) EXCEPT !.unreadable = {"b/f.css"}],
    Dir |-> "", Prefix |-> ""],
   [FS |-> MapFS({"d.css/h.css", "e.css", "m.md"}), Dir |-> "", Prefix |-> ""]}

HashSourceLists == UNION {[1..n -> HashSources] : n \in 0..MaxSources}

\* The sources of a caller that changes a style sheet between two calls of
\* BuildWithHash (strata_test.go:333-356): the full tree; one style sheet
\* under a prefix; a style sheet in a directory named like one; no style
\* sheet; the handle that cannot be walked; a style sheet that cannot be
\* opened.
EditSources ==
  {[FS |-> MapFS(PathUniverse), Dir |-> "", Prefix |-> ""],
   [FS |-> MapFS({"b.css"}), Dir |-> "", Prefix |-> "p"],
   [FS |-> MapFS({"d.css/h.css", "m.md"}), Dir |-> "", Prefix |-> ""],
   [FS |-> MapFS({"m.md"}), Dir |-> "", Prefix |-> ""],
   [FS |-> [MapFS({"b.css"}) EXCEPT !.broken = TRUE], Dir |-> "", Prefix |-> ""],
   [FS |-> [MapFS({"b.css", "b/f.css"}) EXCEPT !.unreadable = {"b/f.css"}],
    Dir |-> "", Prefix |-> ""]}

EditSourceLists == UNION {[1..n -> EditSources] : n \in 0..MaxSources}

\* The source with the content of file f changed.
Edit(s, f) == [s EXCEPT !.FS.edited = {f}]

\* The style sheets of a source whose content the caller may change.
Editable(s) == {f \in s.FS.files : f \in DOMAIN EditedData}

EditedSources == UNION {{Edit(s, f) : f \in Editable(s)} : s \in EditSources}

\* The sources of a caller that calls Build on the same paths with other
\* contents: two style sheets of one layer, of which the first holds a
\* newline; two layers under a prefix; the file of zero bytes; no style
\* sheet; the handle that cannot be walked; a style sheet that cannot be
\* opened.
ContentSources ==
  {[FS |-> MapFS({"c/i.css", "c/j.css"}), Dir |-> "", Prefix |-> ""],
   [FS |-> MapFS({"b.css", "a/e/g.css"}), Dir |-> "", Prefix |-> "p"],
   [FS |-> MapFS({"b/f.css"}), Dir |-> "", Prefix |-> ""],
   [FS |-> MapFS({"m.md"}), Dir |-> "", Prefix |-> ""],
   [FS |-> [MapFS({"b.css"}) EXCEPT !.broken = TRUE], Dir |-> "", Prefix |-> ""],
   [FS |-> [MapFS({"b.css", "b/f.css"}) EXCEPT !.unreadable = {"b/f.css"}],
    Dir |-> "", Prefix |-> ""]}

ContentSourceLists == UNION {[1..n -> ContentSources] : n \in 0..MaxSources}

\* The source with the contents of any of its style sheets changed.
Reassigned(s) == {[s EXCEPT !.FS.edited = e] : e \in SUBSET Editable(s)}

ReassignedSources == UNION {Reassigned(s) : s \in ContentSources}

\* The sources of two invocations of Build that run side by side: the full
\* tree; no style sheet; the handle that cannot be walked; a style sheet
\* that cannot be opened.
PairSources ==
  {[FS |-> MapFS(PathUniverse), Dir |-> "", Prefix |-> ""],
   [FS |-> MapFS({"m.md"}), Dir |-> "", Prefix |-> ""],
   [FS |-> [MapFS({"b.css"}) EXCEPT !.broken = TRUE], Dir |-> "", Prefix |-> ""],
   [FS |-> [MapFS(PathUniverse) EXCEPT !.unreadable = {"b/f.css"}],
    Dir |-> "", Prefix |-> ""]}

PairSourceLists == UNION {[1..n -> PairSources] : n \in 0..MaxSources}

\* The sources of the calls that fail: the full tree, whole; with two style
\* sheets that cannot be opened; with the style sheet of the least path
\* that cannot be opened; a handle that cannot be walked and holds a style
\* sheet that cannot be opened; one style sheet under a prefix; one below a
\* Dir; no style sheet.
FailSources ==
  {[FS |-> MapFS(PathUniverse), Dir |-> "", Prefix |-> ""],
   [FS |-> [MapFS(PathUniverse) EXCEPT !.unreadable = {"b.css", "b/f.css"}],
    Dir |-> "", Prefix |-> ""],
   [FS |-> [MapFS(PathUniverse) EXCEPT !.unreadable = {"a/e/g.css"}],
    Dir |-> "", Prefix |-> ""],
   [FS |-> [MapFS(PathUniverse) EXCEPT !.broken = TRUE, !.unreadable = {"b.css"}],
    Dir |-> "", Prefix |-> ""],
   [FS |-> MapFS({"b.css"}), Dir |-> "", Prefix |-> "p"],
   [FS |-> MapFS({"a/e/g.css"}), Dir |-> "a", Prefix |-> ""],
   [FS |-> MapFS({"m.md"}), Dir |-> "", Prefix |-> ""]}

FailSourceLists == UNION {[1..n -> FailSources] : n \in 0..MaxSources}

\* The prefixes of the sources built with and without a prefix: none, one
\* without a dot and one with a dot inside.
DottedPrefixes == {"", "p", "p.q"}

\* The sources built with and without a prefix: the full tree and the tree
\* with a directory named like a style sheet, under every prefix; a style
\* sheet whose name is its extension; no style sheet; the handle that cannot
\* be walked; a style sheet that cannot be opened.
PrefixSources ==
  [FS : {MapFS(PathUniverse), MapFS({"d.css/h.css", "e.css", "m.md"})},
   Dir : {""}, Prefix : DottedPrefixes]
    \cup {[FS |-> MapFS({".css"}), Dir |-> "", Prefix |-> ""],
          [FS |-> MapFS({"m.md"}), Dir |-> "", Prefix |-> "p"],
          [FS |-> [MapFS({"b.css"}) EXCEPT !.broken = TRUE], Dir |-> "", Prefix |-> "p"],
          [FS |-> [MapFS(PathUniverse) EXCEPT !.unreadable = {"b/f.css"}],
           Dir |-> "", Prefix |-> "p"]}

PrefixSourceLists == UNION {[1..n -> PrefixSources] : n \in 0..MaxSources}

\* The sources whose names and contents hold what the output is made of: a
\* style sheet under a prefix with ", " inside (neither Prefix nor a path is
\* validated, strata.go:124-129); a style sheet whose content is a line
\* "@layer n {"; beside them b.css alone, the full tree, no style sheet, the
\* handle that cannot be walked and a style sheet that cannot be opened.
SeparatorSources ==
  {[FS |-> MapFS({"b.css"}), Dir |-> "", Prefix |-> "a, b"],
   [FS |-> MapFS({"k.css"}), Dir |-> "", Prefix |-> ""],
   [FS |-> MapFS({"b.css"}), Dir |-> "", Prefix |-> ""],
   [FS |-> MapFS(PathUniverse), Dir |-> "", Prefix |-> ""],
   [FS |-> MapFS({"m.md"}), Dir |-> "", Prefix |-> ""],
   [FS |-> [MapFS({"b.css"}) EXCEPT !.broken = TRUE], Dir |-> "", Prefix |-> ""],
   [FS |-> [MapFS(PathUniverse) EXCEPT !.unreadable = {"b/f.css"}],
    Dir |-> "", Prefix |-> ""]}

SeparatorSourceLists == UNION {[1..n -> SeparatorSources] : n \in 0..MaxSources}

\* The handle with its paths and contents as bytes.
ExpandFS(fsys) ==
  [files |-> [p \in {Bytes[f] : f \in fsys.files} |->
                LET f == CHOOSE g \in fsys.files : Bytes[g] = p
                IN  IF f \in fsys.edited THEN Bytes[EditedData[f]]
                    ELSE Bytes[FileData[f]]],
   walkErr |-> IF fsys.broken THEN Err(Bytes["simulated fs error"]) ELSE Nil,
   openErr |-> Err(Bytes["simulated fs error"]),
   dirErr |-> Err(Bytes["invalid argument"]),
   unreadable |-> {Bytes[f] : f \in fsys.unreadable}]

Expand(src) ==
  [FS |-> ExpandFS(src.FS), Dir |-> Bytes[src.Dir], Prefix |-> Bytes[src.Prefix]]

(***************************************************************************)
(* The state of an invocation.                                             *)
(***************************************************************************)

VARIABLES
  sources,    \* the arguments of the call
  pc,         \* "loop": in Build's loop over sources, before the traversal
              \* of a source; "read": in the loop over the file paths of
              \* the source; "done": Build has returned; "hashed":
              \* BuildWithHash has returned
  si,         \* the index of the source the loop is at
  toRead,     \* the sorted filePaths the loop over them has yet to read
  srcLayers,  \* Build's layers, the map of the source the loop is at
  allLayers,  \* Build's allLayers
  origin,     \* for each element of allLayers, the index of its source
  reads,      \* the files read so far, each with the index of its source
  walks,      \* the indices of the sources traversed so far
  result,     \* what Build returned: [css, err]
  hashed,     \* what BuildWithHash returned: [css, hash, err]
  prev,       \* what Build returned in the call before, on the same sources
  hprev,      \* what BuildWithHash returned in the call before
  call,       \* a call of pathToLayerName: [filePath, dir, name]
  peer        \* the invocation of Build that runs beside this one, as it
              \* stands while this one takes its steps

vars ==
  << sources, pc, si, toRead, srcLayers, allLayers, origin, reads, walks, result,
     hashed, prev, hprev, call, peer >>

\* What a step of Build leaves alone.
caller == << sources, hashed, prev, hprev, call, peer >>

None == [css |-> << >>, err |-> Nil, returned |-> FALSE]

Returned(css, err) == [css |-> css, err |-> err, returned |-> TRUE]

NoHash == [css |-> << >>, hash |-> << >>, err |-> Nil, returned |-> FALSE]

HashReturned(css, hash, err) ==
  [css |-> css, hash |-> hash, err |-> err, returned |-> TRUE]

NoCall == [filePath |-> << >>, dir |-> << >>, name |-> << >>]

NoPeer == [running |-> FALSE]

Start ==
  /\ pc = "loop"
  /\ si = 1
  /\ toRead = << >>
  /\ srcLayers = << >>
  /\ allLayers = << >>
  /\ origin = << >>
  /\ reads = << >>
  /\ walks = << >>
  /\ result = None
  /\ hashed = NoHash

Init ==
  /\ sources \in SourceLists
  /\ Start
  /\ prev = None
  /\ hprev = NoHash
  /\ call = NoCall
  /\ peer = NoPeer

InitHash ==
  /\ sources \in HashSourceLists
  /\ Start
  /\ prev = None
  /\ hprev = NoHash
  /\ call = NoCall
  /\ peer = NoPeer

\* The sources of all the calls.
AllSources ==
  Sources \cup HashSources \cup EditSources \cup EditedSources
    \cup ReassignedSources \cup PairSources \cup FailSources
    \cup PrefixSources \cup SeparatorSources

\* The outcomes of the iteration for a source: one for each order in which
\* the traversal may report the entries.  (Merging with the empty function
\* makes TLC tabulate the function once.)
outcomesOf ==
  [s \in AllSources |->
     LET src == Expand(s)
     IN  {iteration(src, order) : order \in Enumerations(src.FS, walkRoot(src))}]
    @@ << >>

\* The sources with their paths and contents as bytes, tabulated.
expanded ==
  [s \in AllSources |-> Expand(s)] @@ << >>

\* What the traversal of a source may collect (strata.go:92-104): one
\* result for each order in which it may report the entries.
collectedOf ==
  [s \in AllSources |->
     LET src == Expand(s)
     IN  {WalkDir(src.FS, walkRoot(src), order) :
            order \in Enumerations(src.FS, walkRoot(src))}]
    @@ << >>

\* What the traversal of the source the loop is at may collect.
Walked == collectedOf[sources[si]]

Tagged(paths) == [i \in 1..Len(paths) |-> << si, paths[i] >>]

InLoop == pc = "loop" /\ si <= Len(sources)

\* The loop over the file paths has a file to read.
InRead == pc = "read" /\ toRead # << >>

\* strata.go:92-107: the walk failed.
WalkError ==
  /\ InLoop
  /\ \E w \in Walked :
       /\ ~w.err.nil
       /\ result' = Returned(<< >>, walkError(w.err))
  /\ pc' = "done"
  /\ walks' = Append(walks, si)
  /\ UNCHANGED << caller, si, toRead, srcLayers, allLayers, origin, reads >>

\* strata.go:92-112: no style sheet in this source.
SkipEmpty ==
  /\ InLoop
  /\ \E w \in Walked : w.err.nil /\ Len(w.filePaths) = 0
  /\ si' = si + 1
  /\ walks' = Append(walks, si)
  /\ UNCHANGED << caller, pc, toRead, srcLayers, allLayers, origin, reads, result >>

\* strata.go:88-115: the walk has collected the paths of style sheets; they
\* are sorted and the loop over them begins with an empty map.
CollectPaths ==
  /\ InLoop
  /\ \E w \in Walked :
       /\ w.err.nil
       /\ Len(w.filePaths) # 0
       /\ toRead' = sortStrings(w.filePaths)
  /\ srcLayers' = << >>
  /\ pc' = "read"
  /\ walks' = Append(walks, si)
  /\ UNCHANGED << caller, si, allLayers, origin, reads, result >>

\* strata.go:118-143: the next file is read and written to its layer.
ProcessFile ==
  /\ InRead
  /\ LET n == readNext(expanded[sources[si]], toRead, srcLayers)
     IN  /\ n.err.nil
         /\ srcLayers' = n.layers
         /\ toRead' = n.rest
         /\ reads' = reads \o Tagged(n.read)
  /\ UNCHANGED << caller, pc, si, allLayers, origin, walks, result >>

\* strata.go:119-122: a read failed.
ReadError ==
  /\ InRead
  /\ LET n == readNext(expanded[sources[si]], toRead, srcLayers)
     IN  /\ ~n.err.nil
         /\ result' = Returned(<< >>, n.err)
         /\ reads' = reads \o Tagged(n.read)
  /\ pc' = "done"
  /\ UNCHANGED << caller, si, toRead, srcLayers, allLayers, origin, walks >>

\* strata.go:145-158: every file of the source is read; the source's layers,
\* sorted, join allLayers, and the loop over the sources goes on.
AppendLayers ==
  /\ pc = "read" /\ toRead = << >>
  /\ \E sortedLayers \in sortSlice(Values(srcLayers)) :
       /\ allLayers' = appendLayers(allLayers, sortedLayers)
       /\ origin' = origin \o [i \in 1..Len(sortedLayers) |-> si]
  /\ srcLayers' = << >>
  /\ si' = si + 1
  /\ pc' = "loop"
  /\ UNCHANGED << caller, toRead, reads, walks, result >>

\* strata.go:162-164: nothing to write.
ReturnEmpty ==
  /\ pc = "loop" /\ si > Len(sources)
  /\ Len(allLayers) = 0
  /\ result' = Returned(<< >>, Nil)
  /\ pc' = "done"
  /\ UNCHANGED << caller, si, toRead, srcLayers, allLayers, origin, reads, walks >>

\* strata.go:166-188: the output.
Render ==
  /\ pc = "loop" /\ si > Len(sources)
  /\ Len(allLayers) # 0
  /\ result' = Returned(render(allLayers), Nil)
  /\ pc' = "done"
  /\ UNCHANGED << caller, si, toRead, srcLayers, allLayers, origin, reads, walks >>

Next ==
  \/ WalkError
  \/ SkipEmpty
  \/ CollectPaths
  \/ ProcessFile
  \/ ReadError
  \/ AppendLayers
  \/ ReturnEmpty
  \/ Render

Spec == Init /\ [][Next]_vars

(***************************************************************************)
(* BuildWithHash: Build's steps, then one of the three returns.            *)
(***************************************************************************)

\* What a return of BuildWithHash leaves alone.
built ==
  << sources, si, toRead, srcLayers, allLayers, origin, reads, walks, result, prev,
     hprev, call, peer >>

\* A variant of the return after a failure of Build that wraps the error.
HashErrorWrapped ==
  /\ pc = "done"
  /\ ~result.err.nil
  /\ hashed' = HashReturned(<< >>, << >>,
                            Errorf(<< "b", "u", "i", "l", "d", ":", " " >>, result.err))
  /\ pc' = "hashed"
  /\ UNCHANGED built

\* strata.go:209-211: Build failed.
HashError ==
  /\ pc = "done"
  /\ ~result.err.nil
  /\ hashed' = HashReturned(<< >>, << >>, result.err)
  /\ pc' = "hashed"
  /\ UNCHANGED built

\* strata.go:213-215: nothing was built.
HashEmpty ==
  /\ pc = "done"
  /\ result.err.nil
  /\ result.css = << >>
  /\ hashed' = HashReturned(<< >>, << >>, Nil)
  /\ pc' = "hashed"
  /\ UNCHANGED built

\* strata.go:217-220: the output and its hash.
HashSum ==
  /\ pc = "done"
  /\ result.err.nil
  /\ result.css # << >>
  /\ hashed' = HashReturned(result.css, hashOf(result.css), Nil)
  /\ pc' = "hashed"
  /\ UNCHANGED built

\* The state in which the next call starts.
Restart ==
  /\ pc' = "loop"
  /\ si' = 1
  /\ toRead' = << >>
  /\ srcLayers' = << >>
  /\ allLayers' = << >>
  /\ origin' = << >>
  /\ reads' = << >>
  /\ walks' = << >>
  /\ result' = None
  /\ hashed' = NoHash

\* The caller calls BuildWithHash again with the same sources.
RerunHash ==
  /\ pc = "hashed"
  /\ prev' = result
  /\ hprev' = hashed
  /\ Restart
  /\ UNCHANGED << sources, call, peer >>

NextHash ==
  \/ WalkError
  \/ SkipEmpty
  \/ CollectPaths
  \/ ProcessFile
  \/ ReadError
  \/ AppendLayers
  \/ ReturnEmpty
  \/ Render
  \/ HashError
  \/ HashEmpty
  \/ HashSum
  \/ RerunHash

SpecHash == InitHash /\ [][NextHash]_vars

(***************************************************************************)
(* BuildWithHash called twice, the content of one style sheet changed in   *)
(* between (strata_test.go:333-356).                                       *)
(***************************************************************************)

InitEdit ==
  /\ sources \in EditSourceLists
  /\ Start
  /\ prev = None
  /\ hprev = NoHash
  /\ call = NoCall
  /\ peer = NoPeer

\* The caller changes the content of one style sheet of one source and calls
\* BuildWithHash with the sources again.
RerunEdited ==
  /\ pc = "hashed"
  /\ ~hprev.returned
  /\ \E k \in 1..Len(sources) :
       \E f \in Editable(sources[k]) :
         sources' = [sources EXCEPT ![k] = Edit(sources[k], f)]
  /\ prev' = result
  /\ hprev' = hashed
  /\ Restart
  /\ UNCHANGED << call, peer >>

NextEdit ==
  \/ WalkError
  \/ SkipEmpty
  \/ CollectPaths
  \/ ProcessFile
  \/ ReadError
  \/ AppendLayers
  \/ ReturnEmpty
  \/ Render
  \/ HashError
  \/ HashEmpty
  \/ HashSum
  \/ RerunEdited

SpecEdit == InitEdit /\ [][NextEdit]_vars

(***************************************************************************)
(* Build called twice on the same paths, Dirs and Prefixes, the contents   *)
(* of the style sheets changed in between.                                 *)
(***************************************************************************)

InitContents ==
  /\ sources \in ContentSourceLists
  /\ Start
  /\ prev = None
  /\ hprev = NoHash
  /\ call = NoCall
  /\ peer = NoPeer

\* The caller changes the contents of some style sheets of the sources and
\* calls Build with the sources again.
RerunReassigned ==
  /\ pc = "done"
  /\ ~prev.returned
  /\ \E list \in [1..Len(sources) -> ReassignedSources] :
       /\ \A k \in 1..Len(sources) : list[k] \in Reassigned(sources[k])
       /\ list # sources
       /\ sources' = list
  /\ prev' = result
  /\ Restart
  /\ UNCHANGED << hprev, call, peer >>

NextContents ==
  \/ WalkError
  \/ SkipEmpty
  \/ CollectPaths
  \/ ProcessFile
  \/ ReadError
  \/ AppendLayers
  \/ ReturnEmpty
  \/ Render
  \/ RerunReassigned

SpecContents == InitContents /\ [][NextContents]_vars

(***************************************************************************)
(* Two invocations of Build on different sources, their steps interleaved. *)
(* The variables hold the invocation that is taking steps, peer the other  *)
(* one as it stands meanwhile.  All the variables of Build are local to    *)
(* the invocation (strata.go:84-89), so each invocation has its own.       *)
(***************************************************************************)

\* Build as a whole, run on its own: the results it may return for a list of
\* sources, from source k on with the layers collected before.
RECURSIVE BuildFrom(_, _, _)
BuildFrom(list, k, layers) ==
  IF k > Len(list)
    THEN {IF Len(layers) = 0 THEN Returned(<< >>, Nil)
          ELSE Returned(render(layers), Nil)}
  ELSE UNION {IF o.kind \in {"walkError", "readError"} THEN {Returned(<< >>, o.err)}
              ELSE IF o.kind = "empty" THEN BuildFrom(list, k + 1, layers)
              ELSE UNION {BuildFrom(list, k + 1, appendLayers(layers, sortedLayers)) :
                            sortedLayers \in sortSlice(Values(o.layers))} :
                o \in outcomesOf[list[k]]}

BuildAlone(list) == BuildFrom(list, 1, << >>)

\* The variables of the invocation that is taking steps.
Context ==
  [running |-> TRUE, sources |-> sources, pc |-> pc, si |-> si,
   toRead |-> toRead, srcLayers |-> srcLayers, allLayers |-> allLayers, origin |-> origin, reads |-> reads, walks |-> walks,
   result |-> result]

InitPair ==
  /\ sources \in PairSourceLists
  /\ Start
  /\ prev = None
  /\ hprev = NoHash
  /\ call = NoCall
  /\ \E other \in PairSourceLists :
       /\ other # sources
       /\ peer = [running |-> TRUE, sources |-> other, pc |-> "loop", si |-> 1,
                  toRead |-> << >>, srcLayers |-> << >>, allLayers |-> << >>, origin |-> << >>, reads |-> << >>,
                  walks |-> << >>, result |-> None]

\* A variant in which allLayers is one variable for both invocations.
SwitchSharedLayers ==
  /\ peer.running
  /\ peer' = Context
  /\ sources' = peer.sources
  /\ pc' = peer.pc
  /\ si' = peer.si
  /\ toRead' = peer.toRead
  /\ srcLayers' = peer.srcLayers
  /\ reads' = peer.reads
  /\ walks' = peer.walks
  /\ result' = peer.result
  /\ UNCHANGED << allLayers, origin, hashed, prev, hprev, call >>

\* The scheduler lets the other invocation take the next steps: each
\* invocation goes on with its own sources and its own local variables.
Switch ==
  /\ peer.running
  /\ peer' = Context
  /\ sources' = peer.sources
  /\ pc' = peer.pc
  /\ si' = peer.si
  /\ toRead' = peer.toRead
  /\ srcLayers' = peer.srcLayers
  /\ allLayers' = peer.allLayers
  /\ origin' = peer.origin
  /\ reads' = peer.reads
  /\ walks' = peer.walks
  /\ result' = peer.result
  /\ UNCHANGED << hashed, prev, hprev, call >>

NextPair ==
  \/ WalkError
  \/ SkipEmpty
  \/ CollectPaths
  \/ ProcessFile
  \/ ReadError
  \/ AppendLayers
  \/ ReturnEmpty
  \/ Render
  \/ Switch

SpecPair == InitPair /\ [][NextPair]_vars

(***************************************************************************)
(* Build on sources whose traversal or reads fail.                         *)
(***************************************************************************)

InitFail ==
  /\ sources \in FailSourceLists
  /\ Start
  /\ prev = None
  /\ hprev = NoHash
  /\ call = NoCall
  /\ peer = NoPeer

SpecFail == InitFail /\ [][Next]_vars

(***************************************************************************)
(* Build on sources with and without a prefix                              *)
(* (strata_test.go:603-632).                                               *)
(***************************************************************************)

InitPrefix ==
  /\ sources \in PrefixSourceLists
  /\ Start
  /\ prev = None
  /\ hprev = NoHash
  /\ call = NoCall
  /\ peer = NoPeer

SpecPrefix == InitPrefix /\ [][Next]_vars

(***************************************************************************)
(* Build on sources whose prefix holds the header's separator or whose     *)
(* content holds a line like a block's first (strata.go:124-129, 166-188). *)
(***************************************************************************)

InitSeparators ==
  /\ sources \in SeparatorSourceLists
  /\ Start
  /\ prev = None
  /\ hprev = NoHash
  /\ call = NoCall
  /\ peer = NoPeer

SpecSeparators == InitSeparators /\ [][Next]_vars

(***************************************************************************)
(* pathToLayerName on its own: a call with a path as fs.WalkDir reports    *)
(* them (elements that are not empty, joined by "/") and a root.           *)
(***************************************************************************)

\* The most elements a path has below the root.
MaxSegments == 3

\* The elements of the paths: files with one and with two dots, a file
\* whose name is its extension, a file without extension, directories.
NameSegments ==
  {<< "r", ".", "c", "s", "s" >>,
   << "x", ".", "y", ".", "c", "s", "s" >>,
   << ".", "c", "s", "s" >>,
   << "n" >>,
   << "a" >>,
   << "b" >>}

RelPaths ==
  {JoinSlash(elems) : elems \in UNION {[1..n -> NameSegments] : n \in 1..MaxSegments}}

\* The paths: below the handle's root, and the same below css.
NamePaths == RelPaths \cup {<< "c", "s", "s", "/" >> \o r : r \in RelPaths}

\* The roots: none, css and a/b, each also with a trailing slash.
NameRoots ==
  {<< >>,
   << "c", "s", "s" >>,
   << "c", "s", "s", "/" >>,
   << "a", "/", "b" >>,
   << "a", "/", "b", "/" >>}

InitName ==
  /\ call \in [filePath : NamePaths, dir : NameRoots, name : {<< >>}]
  /\ pc = "name"
  /\ sources = << >>
  /\ si = 1
  /\ toRead = << >>
  /\ srcLayers = << >>
  /\ allLayers = << >>
  /\ origin = << >>
  /\ reads = << >>
  /\ walks = << >>
  /\ result = None
  /\ hashed = NoHash
  /\ prev = None
  /\ hprev = NoHash
  /\ peer = NoPeer

\* strata.go:40-57: the call returns.
DeriveName ==
  /\ pc = "name"
  /\ call' = [call EXCEPT !.name = pathToLayerName(call.filePath, call.dir)]
  /\ pc' = "named"
  /\ UNCHANGED << sources, si, toRead, srcLayers, allLayers, origin, reads, walks,
                  result, hashed, prev, hprev, peer >>

NextName == DeriveName

SpecName == InitName /\ [][NextName]_vars

(***************************************************************************)
(* Reading an output: the names in its header, the names and the contents  *)
(* of its blocks.                                                          *)
(***************************************************************************)

\* The elements of a finite set of integers, ascending.
RECURSIVE Ascending(_)
Ascending(S) ==
  IF S = {} THEN << >>
  ELSE LET m == CHOOSE k \in S : \A j \in S : k <= j
       IN  << m >> \o Ascending(S \ {m})

\* The pieces of s between the occurrences of sep (strings.Split), for a
\* separator whose occurrences do not overlap.
SplitOn(s, sep) ==
  LET at == Ascending({i \in 1..(Len(s) - Len(sep) + 1) :
                         SubSeq(s, i, i + Len(sep) - 1) = sep})
  IN  [n \in 1..(Len(at) + 1) |->
         SubSeq(s,
                IF n = 1 THEN 1 ELSE at[n - 1] + Len(sep),
                IF n > Len(at) THEN Len(s) ELSE at[n] - 1)]

\* The lines of an output; the piece after the final newline is the last.
OutLines(css) == SplitOn(css, << "\n" >>)

\* The names the header declares; none when the first line is no header.
HeaderNames(css) ==
  LET first == OutLines(css)[1]
  IN  IF HasPrefix(first, layerKeyword) /\ HasSuffix(first, << ";" >>)
        THEN SplitOn(TrimSuffix(TrimPrefix(first, layerKeyword), << ";" >>),
                     << ",", " " >>)
        ELSE << >>

blockOpen == << " ", "{" >>

\* The lines that open a block, ascending.
Openers(css) ==
  LET lines == OutLines(css)
  IN  Ascending({i \in 2..Len(lines) :
                   HasPrefix(lines[i], layerKeyword) /\ HasSuffix(lines[i], blockOpen)})

\* The names of the blocks, in the order of the blocks.
BlockNames(css) ==
  LET lines == OutLines(css)
      open == Openers(css)
  IN  [k \in 1..Len(open) |->
         TrimSuffix(TrimPrefix(lines[open[k]], layerKeyword), blockOpen)]

RECURSIVE JoinLines(_)
JoinLines(lines) ==
  IF lines = << >> THEN << >>
  ELSE Head(lines) \o << "\n" >> \o JoinLines(Tail(lines))

\* The contents of the blocks: the lines between the line that opens a block
\* and the line "}" that closes it.
BlockContents(css) ==
  LET lines == OutLines(css)
      open == Openers(css)
  IN  [k \in 1..Len(open) |->
         LET close == (IF k < Len(open) THEN open[k + 1] ELSE Len(lines)) - 1
         IN  JoinLines(SubSeq(lines, open[k] + 1, close - 1))]

(***************************************************************************)
(* The sources of a call, as the properties below speak of them.           *)
(***************************************************************************)

\* Build has returned an output.
Built == pc = "done" /\ result.err.nil /\ result.css # << >>

\* The style sheets of source k.
StyleSheetsOf(k) == {f \in sources[k].FS.files : HasSuffix(Bytes[f], cssExtension)}

\* The name of the group a file goes to, for every Dir and Prefix of the
\* sources, tabulated.
groupNames ==
  [d \in Dirs |->
     [p \in Prefixes |->
        [f \in DOMAIN FileData |->
           layerNameOf([Dir |-> Bytes[d], Prefix |-> Bytes[p]], Bytes[f])] @@ << >>]
       @@ << >>]
    @@ << >>

\* The name of the group file f of source k goes to.
GroupOf(k, f) == groupNames[sources[k].Dir][sources[k].Prefix][f]

\* The names of the groups of source k.
GroupsOf(k) == {GroupOf(k, f) : f \in StyleSheetsOf(k)}

\* The number of groups of the sources before source k.
RECURSIVE Offset(_)
Offset(k) == IF k <= 1 THEN 0 ELSE Offset(k - 1) + Cardinality(GroupsOf(k - 1))

\* The positions of the groups of source k in the output.
Segment(k) == (Offset(k) + 1)..Offset(k + 1)

\* The order of the groups of one source: by the number of dots, then by
\* the bytes of the name.
NameBefore(a, b) ==
  \/ Count(a, ".") < Count(b, ".")
  \/ Count(a, ".") = Count(b, ".") /\ StrLess(a, b)

\* Whether the positions of seq that belong to one source are ordered by
\* NameBefore.
OrderedWithinSource(seq) ==
  /\ Len(seq) = Len(origin)
  /\ \A i, j \in 1..Len(origin) :
       (i # j /\ origin[i] = origin[j]) => ((i < j) <=> NameBefore(seq[i], seq[j]))

(***************************************************************************)
(* The properties.                                                         *)
(***************************************************************************)

\* C1: two groups of the same source stand, in the header and in the
\* sequence of blocks of Build's output, in the order of their depths (the
\* number of dots in the prefixed name) and, for equal depths, of their names.
GroupOrderingLaw ==
  Built =>
    /\ OrderedWithinSource(HeaderNames(result.css))
    /\ OrderedWithinSource(BlockNames(result.css))

\* A source has put a group before one whose name is smaller: the depth
\* decided.
GroupOrderingLawWitness ==
  /\ Built
  /\ \E i, j \in 1..Len(origin) :
       /\ i < j
       /\ origin[i] = origin[j]
       /\ StrLess(HeaderNames(result.css)[j], HeaderNames(result.css)[i])

\* Whether the groups of every source fill the source's segment of seq.
SourcesInOrder(seq) ==
  /\ Len(seq) = Offset(Len(sources) + 1)
  /\ \A k \in 1..Len(sources) : {seq[i] : i \in Segment(k)} = GroupsOf(k)

\* C2: in the header and in the sequence of blocks, every group of a source
\* stands before every group of a source later in the arguments, whatever
\* their depths and names.
CrossSourceLaw ==
  Built =>
    /\ SourcesInOrder(HeaderNames(result.css))
    /\ SourcesInOrder(BlockNames(result.css))

\* A group stands before a group of a later source that the order of one
\* source would put first.
CrossSourceLawWitness ==
  /\ Built
  /\ \E i, j \in 1..Len(origin) :
       /\ i < j
       /\ origin[i] < origin[j]
       /\ NameBefore(BlockNames(result.css)[j], BlockNames(result.css)[i])

\* C3: a call repeated on the same sources returns what the call before
\* returned: Build the same output, BuildWithHash the same hash, whatever the
\* order in which the traversal reports the files, the map of groups is
\* iterated and the sort leaves the groups.
Determinism ==
  /\ (pc \in {"done", "hashed"} /\ prev.returned) => result = prev
  /\ (pc = "hashed" /\ hprev.returned) => hashed = hprev

\* The second call has returned a hash for an output in which one source has
\* two groups and one group two files.
DeterminismWitness ==
  /\ pc = "hashed"
  /\ hprev.returned
  /\ hashed.hash # << >>
  /\ \E i, j \in 1..Len(origin) : i # j /\ origin[i] = origin[j]
  /\ \E i, j \in 1..Len(reads) :
       /\ i # j
       /\ reads[i][1] = reads[j][1]
       /\ \E f, g \in StyleSheetsOf(reads[i][1]) :
            /\ Bytes[f] = reads[i][2]
            /\ Bytes[g] = reads[j][2]
            /\ GroupOf(reads[i][1], f) = GroupOf(reads[i][1], g)

\* The files of source k that go to the group of the given name, in the
\* ascending order of the bytes of their paths.
FilesOfGroup(k, name) ==
  LET files == {f \in StyleSheetsOf(k) : GroupOf(k, f) = name}
  IN  CHOOSE s \in Perms(files) :
        \A i, j \in 1..Len(s) : i < j => StrLess(Bytes[s[i]], Bytes[s[j]])

\* The contents of the files, each followed by the newline Build writes
\* after it (strata.go:141-142).
RECURSIVE ContentOf(_)
ContentOf(files) ==
  IF files = << >> THEN << >>
  ELSE Bytes[FileData[Head(files)]] \o << "\n" >> \o ContentOf(Tail(files))

\* C4: the content of every group in the output is the contents of the
\* group's files in the ascending order of the bytes of their full paths, in
\* whatever order the traversal has reported the files.
ConcatenationOrder ==
  Built =>
    LET names == BlockNames(result.css)
        contents == BlockContents(result.css)
    IN  /\ Len(contents) = Len(origin)
        /\ \A i \in 1..Len(origin) :
             contents[i] = ContentOf(FilesOfGroup(origin[i], names[i]))

\* A group of two files with different contents has been written.
ConcatenationOrderWitness ==
  /\ Built
  /\ \E i \in 1..Len(origin) :
       LET files == FilesOfGroup(origin[i], BlockNames(result.css)[i])
       IN  /\ Len(files) = 2
           /\ FileData[files[1]] # FileData[files[2]]
           /\ BlockContents(result.css)[i] = ContentOf(files)

\* Whether path p lies under the directory dir of a handle.
UnderDir(p, dir) ==
  dir = << >> \/ HasPrefix(p, TrimSuffix(dir, << "/" >>) \o << "/" >>)

\* C5: a file that contributes to the output of a source with a Dir lies
\* under that Dir.
DirRestrictsTraversal ==
  Built =>
    \A i \in 1..Len(reads) :
      UnderDir(reads[i][2], Bytes[sources[reads[i][1]].Dir])

\* The first source whose processing fails, 0 when there is none: its
\* handle cannot be walked, or one of its style sheets cannot be opened.
WalkFails(k) == sources[k].FS.broken

ReadFails(k) ==
  ~WalkFails(k) /\ StyleSheetsOf(k) \cap sources[k].FS.unreadable # {}

FirstFailure ==
  LET failing == {k \in 1..Len(sources) : WalkFails(k) \/ ReadFails(k)}
  IN  IF failing = {} THEN 0 ELSE CHOOSE k \in failing : \A j \in failing : k <= j

\* C6: when the traversal of a source fails, Build returns the empty string
\* and an error whose message says "walk", also after sources that have
\* contributed groups.
WalkFailure ==
  (pc = "done" /\ FirstFailure # 0 /\ WalkFails(FirstFailure)) =>
    /\ result.css = << >>
    /\ ~result.err.nil
    /\ Contains(result.err.msg, << "w", "a", "l", "k" >>)

\* The traversal of the second source has failed after the first has
\* contributed groups.
WalkFailureWitness ==
  /\ pc = "done"
  /\ Len(sources) = 2
  /\ si = 2
  /\ WalkFails(2)
  /\ allLayers # << >>
  /\ ~result.err.nil

\* C7: when the read of a collected file fails, Build returns the empty
\* string and an error whose message says "read" and names the path of the
\* file, also after files and sources that have been read.
ReadFailure ==
  (pc = "done" /\ FirstFailure # 0 /\ ReadFails(FirstFailure)) =>
    /\ result.css = << >>
    /\ ~result.err.nil
    /\ Contains(result.err.msg, << "r", "e", "a", "d" >>)
    /\ \E f \in StyleSheetsOf(FirstFailure) \cap sources[FirstFailure].FS.unreadable :
         /\ Contains(result.err.msg, Bytes[f])
         /\ reads[Len(reads)] = << FirstFailure, Bytes[f] >>

\* A read of the second source has failed after a file of it and the files
\* of the first source have been read.
ReadFailureWitness ==
  /\ pc = "done"
  /\ Len(sources) = 2
  /\ si = 2
  /\ ReadFails(2)
  /\ allLayers # << >>
  /\ ~result.err.nil
  /\ Len(reads) >= 2
  /\ reads[Len(reads) - 1][1] = 2

\* No source holds a style sheet, and every handle can be walked.
NoStyleSheet ==
  \A k \in 1..Len(sources) : ~WalkFails(k) /\ StyleSheetsOf(k) = {}

\* C8: when no source holds a style sheet, and when there is no source,
\* Build returns the empty string and no error, and BuildWithHash the empty
\* output, the empty hash and no error.
EmptyInputLaw ==
  NoStyleSheet =>
    /\ pc \in {"done", "hashed"} => result = Returned(<< >>, Nil)
    /\ pc = "hashed" => hashed = HashReturned(<< >>, << >>, Nil)

\* BuildWithHash has returned for a source that holds a file, but no style
\* sheet.
EmptyInputLawWitness ==
  /\ pc = "hashed"
  /\ NoStyleSheet
  /\ \E k \in 1..Len(sources) : sources[k].FS.files # {}

\* The call has one source, whose only style sheet is a file of zero bytes
\* that can be read.
OneEmptyStyleSheet ==
  /\ Len(sources) = 1
  /\ ~WalkFails(1)
  /\ ~ReadFails(1)
  /\ \E f \in StyleSheetsOf(1) : StyleSheetsOf(1) = {f} /\ Bytes[FileData[f]] = << >>

\* C9: for one source with one style sheet of zero bytes, Build returns an
\* output, not the empty string: its header declares the group of the file
\* and it has one block, for that group.
EmptyFileCreatesGroup ==
  (pc = "done" /\ OneEmptyStyleSheet) =>
    /\ result.err.nil
    /\ result.css # << >>
    /\ \E f \in StyleSheetsOf(1) :
         /\ HeaderNames(result.css) = << GroupOf(1, f) >>
         /\ BlockNames(result.css) = << GroupOf(1, f) >>

\* Build has returned for such a source.
EmptyFileCreatesGroupWitness ==
  /\ pc = "done"
  /\ OneEmptyStyleSheet
  /\ Len(reads) = 1

HexDigits ==
  {"0", "1", "2", "3", "4", "5", "6", "7", "8", "9", "a", "b", "c", "d", "e", "f"}

\* C10: when BuildWithHash returns no error, the hash is empty exactly when
\* the output is empty, and a hash that is not empty has 16 characters, each
\* a digit or a letter from a to f.
HashFormat ==
  (pc = "hashed" /\ hashed.err.nil) =>
    /\ hashed.hash = << >> <=> hashed.css = << >>
    /\ hashed.hash # << >> =>
         /\ Len(hashed.hash) = 16
         /\ \A i \in 1..Len(hashed.hash) : hashed.hash[i] \in HexDigits

\* BuildWithHash has returned a hash with a letter in it.
HashFormatWitness ==
  /\ pc = "hashed"
  /\ hashed.err.nil
  /\ hashed.css # << >>
  /\ \E i \in 1..Len(hashed.hash) : hashed.hash[i] \in {"a", "b", "c", "d", "e", "f"}

\* The groups of source k in the order of one source, each with k.
GroupsInOrder(k) ==
  LET order == CHOOSE o \in Perms(GroupsOf(k)) :
                 \A i, j \in 1..Len(o) : i < j => NameBefore(o[i], o[j])
  IN  [i \in 1..Len(order) |-> << k, order[i] >>]

\* The final list of groups of the sources from k on: pairs of a source and
\* a name.
RECURSIVE FinalGroupsFrom(_)
FinalGroupsFrom(k) ==
  IF k > Len(sources) THEN << >> ELSE GroupsInOrder(k) \o FinalGroupsFrom(k + 1)

FinalGroups == FinalGroupsFrom(1)

\* name(g1) + ", " + ... + name(gN).
RECURSIVE NamesLine(_)
NamesLine(groups) ==
  IF groups = << >> THEN << >>
  ELSE IF Len(groups) = 1 THEN groups[1][2]
  ELSE groups[1][2] \o << ",", " " >> \o NamesLine(Tail(groups))

\* "@layer " + name(gi) + " {\n" + content(gi) + "}\n" for each group.
RECURSIVE BlocksText(_)
BlocksText(groups) ==
  IF groups = << >> THEN << >>
  ELSE << "@", "l", "a", "y", "e", "r", " " >> \o groups[1][2] \o << " ", "{", "\n" >>
       \o ContentOf(FilesOfGroup(groups[1][1], groups[1][2])) \o << "}", "\n" >>
       \o BlocksText(Tail(groups))

\* Build has returned without error for sources that have groups.
BuiltFromGroups == pc = "done" /\ result.err.nil /\ FinalGroups # << >>

\* C11: for a final list of groups that is not empty, the output is the
\* header "@layer " + names joined by ", " + ";\n", then for each group
\* "@layer " + name + " {\n" + content + "}\n", the content being the bytes of
\* the group's files, each followed by one newline.
ExactByteLayout ==
  BuiltFromGroups =>
    result.css = << "@", "l", "a", "y", "e", "r", " " >> \o NamesLine(FinalGroups)
                   \o << ";", "\n" >> \o BlocksText(FinalGroups)

\* An output of two sources and three groups, one of them of two files.
ExactByteLayoutWitness ==
  /\ BuiltFromGroups
  /\ Len(sources) = 2
  /\ Len(FinalGroups) >= 3
  /\ \E i \in 1..Len(FinalGroups) :
       Len(FilesOfGroup(FinalGroups[i][1], FinalGroups[i][2])) = 2

\* C12, as stated: in every output of Build, the names of the header line,
\* split on ", ", are the names of the block openers that follow, one for
\* one and in the same order.
HeaderBlockConsistency ==
  Built =>
    /\ HeaderNames(result.css) # << >>
    /\ HeaderNames(result.css) = BlockNames(result.css)

\* No name of a layer holds the header's separator ", " or a newline.
PlainNames ==
  \A i \in 1..Len(allLayers) :
    /\ ~Contains(allLayers[i].name, << ",", " " >>)
    /\ Count(allLayers[i].name, "\n") = 0

\* No line of a layer's content reads like the first line of a block: none
\* begins with "@layer " and ends with " {".
PlainContents ==
  \A i \in 1..Len(allLayers) :
    LET lines == SplitOn(allLayers[i].content, << "\n" >>)
    IN  \A n \in 1..Len(lines) :
          ~(HasPrefix(lines[n], layerKeyword) /\ HasSuffix(lines[n], blockOpen))

\* C12, amended: in every output of Build whose layer names hold neither
\* ", " nor a newline and whose contents hold no line of the form
\* "@layer ... {", the names of the header line, split on ", ", are the
\* names of the block openers that follow, one for one and in the same
\* order.
HeaderBlockConsistencyPlain ==
  (Built /\ PlainNames /\ PlainContents) =>
    LET names == HeaderNames(result.css)
    IN  /\ names # << >>
        /\ names = BlockNames(result.css)

\* An output of such names and contents in which a name stands twice.
HeaderBlockConsistencyWitness ==
  /\ Built
  /\ PlainNames
  /\ PlainContents
  /\ \E i, j \in 1..Len(BlockNames(result.css)) :
       i # j /\ BlockNames(result.css)[i] = BlockNames(result.css)[j]

\* The names pathToLayerName derives, for every Dir of the sources,
\* tabulated.
derivedNames ==
  [d \in Dirs |->
     [f \in DOMAIN FileData |-> pathToLayerName(Bytes[f], Bytes[d])] @@ << >>]
    @@ << >>

\* The name the prefix rule gives file f of source k.
PrefixedName(k, f) ==
  LET derived == derivedNames[sources[k].Dir][f]
      P == Bytes[sources[k].Prefix]
  IN  IF P = << >> THEN derived ELSE P \o << "." >> \o derived

\* Whether the names of seq at the positions of every source are the names
\* the prefix rule gives the source's style sheets.
PrefixedInSegments(seq) ==
  /\ Len(seq) = Offset(Len(sources) + 1)
  /\ \A k \in 1..Len(sources) :
       {seq[i] : i \in Segment(k)} = {PrefixedName(k, f) : f \in StyleSheetsOf(k)}

\* C13: the names of a source with a prefix P stand in the header and in the
\* block openers as P + "." + derived name, those of a source without prefix
\* as the derived name, whatever the prefixes of the other sources.
PrefixRule ==
  Built =>
    /\ PrefixedInSegments(HeaderNames(result.css))
    /\ PrefixedInSegments(BlockNames(result.css))

\* An output of a source with a prefix and a source without.
PrefixRuleWitness ==
  /\ Built
  /\ \E k, n \in 1..Len(sources) :
       /\ sources[k].Prefix # ""
       /\ sources[n].Prefix = ""
       /\ StyleSheetsOf(k) # {}
       /\ StyleSheetsOf(n) # {}

\* C14: BuildWithHash returns the output Build has returned and no error,
\* or, when Build has returned an error, the empty output, the empty hash
\* and that error.
HashAgreesWithBuild ==
  pc = "hashed" =>
    /\ result.err.nil => (hashed.css = result.css /\ hashed.err.nil)
    /\ ~result.err.nil =>
         (hashed.css = << >> /\ hashed.hash = << >> /\ hashed.err = result.err)

\* BuildWithHash has returned the error of a Build that failed at its second
\* source.
HashAgreesWithBuildWitness ==
  /\ pc = "hashed"
  /\ ~result.err.nil
  /\ hashed.err = result.err
  /\ si = 2

\* The path without the leading root and slash, when it has them; the root
\* taken without its trailing slash.
StrippedPath(p, d) ==
  LET root == IF d # << >> /\ d[Len(d)] = "/" THEN SubSeq(d, 1, Len(d) - 1) ELSE d
      lead == root \o << "/" >>
  IN  IF Len(p) >= Len(lead) /\ SubSeq(p, 1, Len(lead)) = lead
        THEN SubSeq(p, Len(lead) + 1, Len(p))
        ELSE p

\* The name without its extension: without the part from its last dot on.
WithoutExtension(base) ==
  LET dots == {i \in 1..Len(base) : base[i] = "."}
  IN  IF dots = {} THEN base
      ELSE SubSeq(base, 1, (CHOOSE i \in dots : \A j \in dots : j <= i) - 1)

\* s[1] + "." + s[2] + ... for a sequence of strings that is not empty.
RECURSIVE JoinDots(_)
JoinDots(elems) ==
  IF Len(elems) = 1 THEN elems[1]
  ELSE elems[1] \o << "." >> \o JoinDots(Tail(elems))

\* The group name of path p for root d.
DerivedName(p, d) ==
  LET elems == SplitOn(StrippedPath(p, d), << "/" >>)
  IN  IF Len(elems) = 1 THEN WithoutExtension(elems[1])
      ELSE JoinDots(SubSeq(elems, 1, Len(elems) - 1))

\* C15: pathToLayerName(p, d) strips a leading d + "/" from p, d taken
\* without its trailing slash, and returns the base name without its
\* extension when no directory is left, and else the directories that are
\* left, joined by dots.
GroupNameDerivation ==
  pc = "named" => call.name = DerivedName(call.filePath, call.dir)

\* A call with a root that ends in a slash and a path below it, two
\* directories deep.
GroupNameDerivationWitness ==
  /\ pc = "named"
  /\ call.dir = << "c", "s", "s", "/" >>
  /\ HasPrefix(call.filePath, call.dir)
  /\ Count(call.name, ".") = 1
  /\ Count(call.filePath, "/") = 3

\* Whether position i of the output, given by the names of its header, the
\* names of its blocks and their contents, is a group of the given name with
\* the content of the files source k has for that name.
GroupAt(names, blocks, contents, i, k, name) ==
  /\ names[i] = name
  /\ blocks[i] = name
  /\ contents[i] = ContentOf(FilesOfGroup(k, name))

\* C16: when two sources have a group of the same name, the output has an
\* entry of the header and a block for each of them, in the order of the
\* sources, each with the content of its own source.
NeverMergedAcrossSources ==
  Built =>
    LET names == HeaderNames(result.css)
        blocks == BlockNames(result.css)
        contents == BlockContents(result.css)
    IN  /\ Len(names) = Offset(Len(sources) + 1)
        /\ Len(blocks) = Len(names)
        /\ \A k1, k2 \in 1..Len(sources) :
             k1 < k2 =>
               \A name \in GroupsOf(k1) \cap GroupsOf(k2) :
                 \E i \in Segment(k1), j \in Segment(k2) :
                   /\ i < j
                   /\ GroupAt(names, blocks, contents, i, k1, name)
                   /\ GroupAt(names, blocks, contents, j, k2, name)

\* Two sources have a group of the same name with different contents.
NeverMergedAcrossSourcesWitness ==
  /\ Built
  /\ \E k1, k2 \in 1..Len(sources) :
       /\ k1 < k2
       /\ \E name \in GroupsOf(k1) \cap GroupsOf(k2) :
            ContentOf(FilesOfGroup(k1, name)) # ContentOf(FilesOfGroup(k2, name))

\* C17, as stated: no name stands more than once in the header.
NamesUniqueInHeader ==
  Built =>
    \A i, j \in 1..Len(HeaderNames(result.css)) :
      i # j => HeaderNames(result.css)[i] # HeaderNames(result.css)[j]

\* C17, amended: no name stands more than once among the names one source
\* has put into the header; a name stands once for each source that has a
\* group of that name.
NamesUniqueWithinSource ==
  Built =>
    LET names == HeaderNames(result.css)
    IN  /\ Len(names) = Len(origin)
        /\ \A i, j \in 1..Len(origin) :
             (i # j /\ origin[i] = origin[j]) => names[i] # names[j]
        /\ \A name \in UNION {GroupsOf(k) : k \in 1..Len(sources)} :
             Cardinality({i \in 1..Len(names) : names[i] = name})
               = Cardinality({k \in 1..Len(sources) : name \in GroupsOf(k)})

\* A header in which a name stands twice, from two sources, one of which
\* has two files for it.
NamesUniqueWithinSourceWitness ==
  /\ Built
  /\ \E i, j \in 1..Len(origin) :
       /\ origin[i] < origin[j]
       /\ HeaderNames(result.css)[i] = HeaderNames(result.css)[j]
       /\ Len(FilesOfGroup(origin[i], HeaderNames(result.css)[i])) = 2

\* C18: the files of one source that go to the same name make one group:
\* the name stands once among the source's names in the header, the source
\* has one block for it, and the block holds the files' contents in the
\* order of their full paths; so for a file b.css and the files below b/.
MergedWithinSource ==
  Built =>
    LET names == HeaderNames(result.css)
        blocks == BlockNames(result.css)
        contents == BlockContents(result.css)
    IN  /\ Len(names) = Offset(Len(sources) + 1)
        /\ Len(blocks) = Len(names)
        /\ \A k \in 1..Len(sources) :
             \A name \in GroupsOf(k) :
               /\ Cardinality({i \in Segment(k) : names[i] = name}) = 1
               /\ Cardinality({i \in Segment(k) : blocks[i] = name}) = 1
               /\ \A i \in Segment(k) :
                    blocks[i] = name => contents[i] = ContentOf(FilesOfGroup(k, name))

\* A source has a file at its root and a file in the directory of the same
\* name.
MergedWithinSourceWitness ==
  /\ Built
  /\ \E k \in 1..Len(sources) :
       \E name \in GroupsOf(k) :
         LET files == FilesOfGroup(k, name)
         IN  /\ Len(files) = 2
             /\ Count(Bytes[files[1]], "/") = 0
             /\ Count(Bytes[files[2]], "/") = 1

\* The paths Build has read in source k.
ReadsOf(k) == {reads[i][2] : i \in {j \in 1..Len(reads) : reads[j][1] = k}}

\* The directories of source k.
DirectoriesOf(k) == UNION {Ancestors(Bytes[f]) : f \in sources[k].FS.files}

\* C19: Build reads only regular files whose path ends in ".css": no
\* directory, whatever its name, and no other file; and a call that ends
\* without error has read every style sheet, those below a directory that
\* was passed over too, and its output has the groups of the style sheets
\* with their contents and nothing else.
OnlyEligibleFilesContribute ==
  /\ \A i \in 1..Len(reads) :
       LET k == reads[i][1]
           p == reads[i][2]
       IN  /\ p \in {Bytes[f] : f \in sources[k].FS.files}
           /\ p \notin DirectoriesOf(k)
           /\ HasSuffix(p, cssExtension)
  /\ pc = "done" /\ result.err.nil =>
       \A k \in 1..Len(sources) : ReadsOf(k) = {Bytes[f] : f \in StyleSheetsOf(k)}
  /\ Built =>
       LET blocks == BlockNames(result.css)
           contents == BlockContents(result.css)
       IN  /\ Len(blocks) = Offset(Len(sources) + 1)
           /\ \A k \in 1..Len(sources) :
                /\ {blocks[i] : i \in Segment(k)} = GroupsOf(k)
                /\ \A i \in Segment(k) :
                     contents[i] = ContentOf(FilesOfGroup(k, blocks[i]))

\* A call has ended on a source with a directory named d.css, a style sheet
\* below it and a file m.md: the style sheet has been read, the directory
\* and m.md have not.
OnlyEligibleFilesContributeWitness ==
  /\ Built
  /\ \E k \in 1..Len(sources) :
       /\ Bytes["m.md"] \in {Bytes[f] : f \in sources[k].FS.files}
       /\ \E d \in DirectoriesOf(k) :
            /\ HasSuffix(d, cssExtension)
            /\ d \notin ReadsOf(k)
            /\ \E p \in ReadsOf(k) : HasPrefix(p, d \o << "/" >>)
       /\ Bytes["m.md"] \notin ReadsOf(k)

\* The sources whose handle holds a file with changed content.
EditedIn == {k \in 1..Len(sources) : sources[k].FS.edited # {}}

\* C20: when BuildWithHash has returned for a list of sources and then for
\* the list with the content of one style sheet changed, both times without
\* error, the two hashes are different.
FingerprintSensitivity ==
  pc = "hashed" /\ hprev.returned /\ hprev.err.nil /\ hashed.err.nil =>
    /\ Len(hprev.hash) = 16
    /\ Len(hashed.hash) = 16
    /\ hashed.hash # hprev.hash

\* Both calls have returned an output, the second for a list of two sources
\* of which one has a style sheet with changed content.
FingerprintSensitivityWitness ==
  /\ pc = "hashed"
  /\ hprev.returned /\ hprev.err.nil /\ hashed.err.nil
  /\ Len(sources) = 2
  /\ Cardinality(EditedIn) = 1
  /\ hashed.css # hprev.css
  /\ HeaderNames(hashed.css) = HeaderNames(hprev.css)

\* The files of the sources that hold their changed content.
Changed == UNION {{<< k, f >> : f \in sources[k].FS.edited} : k \in 1..Len(sources)}

\* Build has returned twice without error, the second time for the sources
\* with other contents.
BuiltTwice == pc = "done" /\ prev.returned /\ prev.err.nil /\ result.err.nil

\* C21: when Build has returned for a list of sources and then for the same
\* paths, Dirs and Prefixes with other contents, the header lines of the two
\* outputs are the same bytes, and so are the names of the blocks, one for
\* one and in the same order.
NamesIndependentOfContents ==
  BuiltTwice =>
    /\ OutLines(result.css)[1] = OutLines(prev.css)[1]
    /\ BlockNames(result.css) = BlockNames(prev.css)
    /\ (result.css = << >>) <=> (prev.css = << >>)

\* The second call was for two layers of one source, both with changed
\* contents, and the outputs differ.
NamesIndependentOfContentsWitness ==
  /\ BuiltTwice
  /\ Cardinality(Changed) >= 2
  /\ Len(BlockNames(result.css)) >= 2
  /\ result.css # prev.css

\* C22: of two invocations of Build on different sources, whose steps are
\* interleaved in any way, each returns what Build returns for its sources
\* when it runs on its own.
InterleavingIsolated ==
  /\ pc = "done" => result \in BuildAlone(sources)
  /\ (peer.running /\ peer.pc = "done") => peer.result \in BuildAlone(peer.sources)

\* An invocation on two sources has returned an output while the other one,
\* on other sources, has collected the layers of its first source and stands
\* between two reads of its second source.
InterleavingIsolatedWitness ==
  /\ peer.running
  /\ pc = "done" /\ result.err.nil /\ result.css # << >>
  /\ Len(sources) = 2
  /\ peer.pc = "read" /\ peer.si = 2 /\ Len(peer.sources) = 2
  /\ peer.toRead # << >>
  /\ \E i \in 1..Len(peer.reads) : peer.reads[i][1] = 2
  /\ Len(peer.allLayers) > 0
  /\ sources # peer.sources

\* The groups of an output: the name and the content of each block.
Groups(css) ==
  LET blocks == BlockNames(css)
      contents == BlockContents(css)
  IN  [i \in 1..Len(blocks) |-> [name |-> blocks[i], content |-> contents[i]]]

\* The groups of the output Build returns for one source alone.
GroupsAlone(s) == Groups((CHOOSE r \in BuildAlone(<< s >>) : TRUE).css)

\* The groups of the sources from k on, each source taken alone, one list
\* after the other.
RECURSIVE GroupsAloneFrom(_)
GroupsAloneFrom(k) ==
  IF k > Len(sources) THEN << >>
  ELSE GroupsAlone(sources[k]) \o GroupsAloneFrom(k + 1)

\* Whether a source holds a style sheet, or cannot be walked.
Contributes(s) ==
  s.FS.broken \/ \E f \in s.FS.files : HasSuffix(Bytes[f], cssExtension)

\* The sources without those that can be walked and hold no style sheet.
Contributing == SelectSeq(sources, Contributes)

\* C23: the groups of the output of Build(S1, ..., Sn), and the names of its
\* header, are the groups Build returns for S1 alone, then those for S2
\* alone, and so on, in the order of the arguments; and what Build returns
\* is what it returns for the list without the sources that hold no style
\* sheet.
MultiSourceComposition ==
  /\ Built =>
       LET groups == GroupsAloneFrom(1)
       IN  /\ Groups(result.css) = groups
           /\ HeaderNames(result.css) = [i \in 1..Len(groups) |-> groups[i].name]
  /\ pc = "done" => result \in BuildAlone(Contributing)

\* Two sources with groups, the first group of the second source of less
\* depth than the last group of the first.
MultiSourceCompositionWitness ==
  /\ Built
  /\ Len(sources) = 2
  /\ LET first == GroupsAlone(sources[1])
         second == GroupsAlone(sources[2])
     IN  /\ Len(first) >= 2
         /\ Len(second) >= 1
         /\ Count(second[1].name, ".") < Count(first[Len(first)].name, ".")

\* A source that holds no style sheet stands before a source with groups.
EmptySourceSkippedWitness ==
  /\ Built
  /\ Len(sources) = 2
  /\ ~Contributes(sources[1])
  /\ Len(Contributing) = 1

\* Whether the read at position i of reads has failed.
FailedRead(i) ==
  reads[i][2] \in {Bytes[f] : f \in sources[reads[i][1]].FS.unreadable}

\* C24: Build traverses the sources one after the other in the order of the
\* arguments and reads the files of a source after its traversal; a
\* traversal that has failed is the last traversal and no file of its source
\* is read; a read that has failed is the last read, and its source the last
\* one traversed.
FailFast ==
  /\ walks = [i \in 1..Len(walks) |-> i]
  /\ \A i \in 1..Len(reads) : reads[i][1] \in 1..Len(walks)
  /\ \A i, j \in 1..Len(reads) : i < j => reads[i][1] <= reads[j][1]
  /\ \A k \in 1..Len(walks) :
       WalkFails(k) =>
         /\ k = Len(walks)
         /\ \A i \in 1..Len(reads) : reads[i][1] # k
         /\ pc = "done" /\ ~result.err.nil
  /\ \A i \in 1..Len(reads) :
       FailedRead(i) =>
         /\ i = Len(reads)
         /\ reads[i][1] = Len(walks)
         /\ pc = "done" /\ ~result.err.nil

\* The read of the first style sheet of the first source has failed: the
\* source holds more style sheets and a second source follows.
FailFastWitness ==
  /\ pc = "done"
  /\ Len(sources) = 2
  /\ Len(reads) = 1
  /\ FailedRead(1)
  /\ Cardinality(StyleSheetsOf(1)) = 3
  /\ StyleSheetsOf(2) # {}
  /\ walks = << 1 >>

\* The style sheet of source k that cannot be opened and has the least path.
FirstUnreadable(k) ==
  LET failing == {Bytes[f] : f \in StyleSheetsOf(k) \cap sources[k].FS.unreadable}
  IN  CHOOSE p \in failing : \A q \in failing : p = q \/ StrLess(p, q)

\* C25: when operations of a call would fail, Build stops at the first
\* source in the order of the arguments that has one; it returns the error of
\* the traversal when the traversal of that source fails, whatever files of
\* the source cannot be opened, and else the error of the read of the style
\* sheet with the least path among those that cannot be opened.
ErrorPrecedence ==
  (pc = "done" /\ FirstFailure # 0) =>
    /\ si = FirstFailure
    /\ WalkFails(si) =>
         result = Returned(<< >>, Errorf(<< "w", "a", "l", "k", " ", "f", "i", "l", "e",
                                           "s", "y", "s", "t", "e", "m", ":", " " >>,
                                         Err(Bytes["simulated fs error"])))
    /\ ReadFails(si) =>
         result = Returned(<< >>, Errorf(<< "r", "e", "a", "d", " " >>
                                           \o FirstUnreadable(si) \o << ":", " " >>,
                                         Err(Bytes["simulated fs error"])))

\* The first source holds two style sheets that cannot be opened, and the
\* second source cannot be walked.
ErrorPrecedenceWitness ==
  /\ pc = "done"
  /\ Len(sources) = 2
  /\ ReadFails(1)
  /\ Cardinality(StyleSheetsOf(1) \cap sources[1].FS.unreadable) = 2
  /\ WalkFails(2)
  /\ Contains(result.err.msg, Bytes["b.css"])

\* The source cannot be walked and holds a style sheet that cannot be
\* opened.
WalkBeforeReadWitness ==
  /\ pc = "done"
  /\ Len(sources) = 1
  /\ WalkFails(1)
  /\ StyleSheetsOf(1) \cap sources[1].FS.unreadable # {}

\* The dots the prefix of source k puts before a name: those of the prefix
\* and the one that joins it to the name.
PrefixDots(k) ==
  IF sources[k].Prefix = "" THEN 0 ELSE Count(Bytes[sources[k].Prefix], ".") + 1

\* The nesting level of file f of source k: 0 at the root and in a directory
\* of the root, one more for every directory further down.
NestingLevel(k, f) ==
  LET n == Count(StrippedPath(Bytes[f], Bytes[sources[k].Dir]), "/")
  IN  IF n = 0 THEN 0 ELSE n - 1

\* C26: the depth Build orders a group by, less the dots of the prefix, is
\* the nesting level of the files of the group: 0 for a file at the root or
\* in a directory of the root, k - 1 for a file k directories down.
DepthIsNestingLevel ==
  \A i \in 1..Len(allLayers) :
    \A f \in StyleSheetsOf(origin[i]) :
      GroupOf(origin[i], f) = allLayers[i].name =>
        allLayers[i].depth - PrefixDots(origin[i]) = NestingLevel(origin[i], f)

\* The same for the sources none of whose style sheets has a dot in its path
\* but the one of the extension.
DepthIsNestingLevelPlainPaths ==
  (\A k \in 1..Len(sources) :
     \A f \in StyleSheetsOf(k) : Count(Bytes[f], ".") = 1) => DepthIsNestingLevel

\* A call on one source has returned an output with the group "d.css" of
\* the directory d.css, which lies in the root; the group has depth 1 and
\* stands after the group "e" of depth 0.
DepthIsNestingLevelFails ==
  /\ pc = "done"
  /\ Len(sources) = 1
  /\ Len(allLayers) = 2
  /\ allLayers[2].name = << "d", ".", "c", "s", "s" >>
  /\ allLayers[2].depth = 1
  /\ HeaderNames(result.css) = << << "e" >>, << "d", ".", "c", "s", "s" >> >>

\* The groups Build returns for source s alone without its prefix, each
\* name with the prefix of s and a dot before it.
PrefixedGroupsAlone(s) ==
  LET plain == GroupsAlone([s EXCEPT !.Prefix = ""])
      P == Bytes[s.Prefix]
  IN  [i \in 1..Len(plain) |->
         [name |-> IF P = << >> THEN plain[i].name ELSE P \o << "." >> \o plain[i].name,
          content |-> plain[i].content]]

RECURSIVE PrefixedGroupsFrom(_)
PrefixedGroupsFrom(k) ==
  IF k > Len(sources) THEN << >>
  ELSE PrefixedGroupsAlone(sources[k]) \o PrefixedGroupsFrom(k + 1)

\* C27: the groups Build returns for a source with a prefix P are the groups
\* it returns for the source without prefix, in the same order and with the
\* same contents, each name with P and a dot before it; so for every source
\* of a call, and for a prefix with a dot inside.
PrefixPreservesOrder ==
  Built =>
    LET groups == PrefixedGroupsFrom(1)
    IN  /\ Groups(result.css) = groups
        /\ HeaderNames(result.css) = [i \in 1..Len(groups) |-> groups[i].name]

\* A source with the prefix "p.q" and groups of two depths, in a call with
\* a second source that has another prefix.
PrefixPreservesOrderWitness ==
  /\ Built
  /\ Len(sources) = 2
  /\ sources[1].Prefix = "p.q"
  /\ sources[2].Prefix = "p"
  /\ LET plain == GroupsAlone([sources[1] EXCEPT !.Prefix = ""])
     IN  /\ Len(plain) = 2
         /\ Count(plain[1].name, ".") < Count(plain[2].name, ".")
         /\ StrLess(plain[2].name, plain[1].name)

\* The sum of f over the elements of the set S.
RECURSIVE SumOver(_, _)
SumOver(S, f) ==
  IF S = {} THEN 0
  ELSE LET x == CHOOSE y \in S : TRUE IN f[x] + SumOver(S \ {x}, f)

\* The style sheets of the call, each with the index of its source.
Collected == UNION {{<< k, f >> : f \in StyleSheetsOf(k)} : k \in 1..Len(sources)}

\* C28: in an output of Build every style sheet read has one block, the one
\* of its group among the blocks of its own source, and that block holds the
\* contents of its group's files, each once and each followed by a newline;
\* the bytes of all blocks together are the bytes of all style sheets and
\* one newline for each; every style sheet is read once; and there are as
\* many blocks as the sources have distinct group names, counted source by
\* source.
ContentConservation ==
  Built =>
    LET blocks == BlockNames(result.css)
        contents == BlockContents(result.css)
    IN  /\ Len(blocks) = Len(origin)
        /\ Len(blocks) = SumOver(1..Len(sources),
                                 [k \in 1..Len(sources) |-> Cardinality(GroupsOf(k))])
        /\ \A c \in Collected :
             /\ Cardinality({i \in 1..Len(reads) : reads[i] = << c[1], Bytes[c[2]] >>}) = 1
             /\ Cardinality({i \in 1..Len(blocks) :
                               origin[i] = c[1] /\ blocks[i] = GroupOf(c[1], c[2])}) = 1
             /\ \A i \in 1..Len(blocks) :
                  (origin[i] = c[1] /\ blocks[i] = GroupOf(c[1], c[2])) =>
                    /\ contents[i] = ContentOf(FilesOfGroup(c[1], blocks[i]))
                    /\ Cardinality({j \in 1..Len(FilesOfGroup(c[1], blocks[i])) :
                                      FilesOfGroup(c[1], blocks[i])[j] = c[2]}) = 1
        /\ Len(reads) = Cardinality(Collected)
        /\ SumOver(1..Len(blocks), [i \in 1..Len(blocks) |-> Len(contents[i])])
             = SumOver(Collected, [c \in Collected |-> Len(Bytes[FileData[c[2]]]) + 1])

\* Two sources with a group of the same name; the first has two files for
\* it, and five style sheets are written in all.
ContentConservationWitness ==
  /\ Built
  /\ Len(sources) = 2
  /\ Cardinality(Collected) >= 5
  /\ \E name \in GroupsOf(1) \cap GroupsOf(2) : Len(FilesOfGroup(1, name)) = 2

\* C29: no name in the header of an output of Build and no name of a block
\* is the empty string.
GroupNamesNotEmpty ==
  Built =>
    /\ \A i \in 1..Len(allLayers) : allLayers[i].name # << >>
    /\ \A i \in 1..Len(HeaderNames(result.css)) : HeaderNames(result.css)[i] # << >>
    /\ \A i \in 1..Len(BlockNames(result.css)) : BlockNames(result.css)[i] # << >>

\* Build has returned the output "@layer ;\n@layer  {\nz\n}\n" for the source
\* that holds the file .css alone.
GroupNamesNotEmptyFails ==
  /\ Built
  /\ Len(sources) = 1
  /\ sources[1].FS.files = {".css"}
  /\ result.css = << "@", "l", "a", "y", "e", "r", " ", ";", "\n",
                     "@", "l", "a", "y", "e", "r", " ", " ", "{", "\n",
                     "z", "\n", "}", "\n" >>

\* The same for the sources that hold no style sheet whose name is its
\* extension.
GroupNamesNotEmptyOtherwise ==
  (\A k \in 1..Len(sources) : ".css" \notin sources[k].FS.files) => GroupNamesNotEmpty

\* C30, as stated: two calls of Build on the same sources, paths and
\* prefixes whose style sheets differ in the content of at least one file
\* return different outputs.
OutputInjectiveInContents ==
  BuiltTwice => result.css # prev.css

\* The contents of the style sheets of the call before and of this call hold
\* no newline.
NoNewlineInContents ==
  \A k \in 1..Len(sources) :
    \A f \in StyleSheetsOf(k) :
      /\ Count(Bytes[FileData[f]], "\n") = 0
      /\ f \in DOMAIN EditedData => Count(Bytes[EditedData[f]], "\n") = 0

\* C30, amended: the two outputs differ when the contents differ in one
\* file only, and when no content holds a newline.
OutputInjectiveInOneFile ==
  (BuiltTwice /\ (Cardinality(Changed) = 1 \/ NoNewlineInContents)) =>
    result.css # prev.css

\* The second call was for other content in the second of the two files of
\* one group, whose first file holds a newline.
OutputInjectiveInOneFileWitness ==
  /\ BuiltTwice
  /\ Len(sources) = 1
  /\ Changed = {<< 1, "c/j.css" >>}
  /\ result.css # prev.css

\* The two files of one group have other contents in the second call, and
\* the output is the one of the first call.
OutputInjectiveInContentsFails ==
  /\ BuiltTwice
  /\ Len(sources) = 1
  /\ Changed = {<< 1, "c/i.css" >>, << 1, "c/j.css" >>}
  /\ result.css = prev.css
  /\ result.css # << >>

=============================================================================
